---------------------------- MODULE Spec2Model ----------------------------
(***************************************************************************)
(* Ledger: the financial analysis core (src/lib/analyzer.ts,               *)
(* src/lib/subscriptions.ts, src/lib/categories.ts, src/lib/plaid.ts).     *)
(*                                                                         *)
(* Conventions of the model                                                *)
(*  - a date is a whole day number: new Date(t.date).getTime() divided by  *)
(*    the 86400000 ms of a day (the data model's dates carry no time);     *)
(*  - an amount is a whole number of dollars; negative = money received;   *)
(*  - a non-integer JavaScript number is an exact fraction [n, d] in       *)
(*    lowest terms; d = 0 encodes Infinity (n = 1) and NaN (n = 0);        *)
(*  - a standard deviation s >= 0 is carried by its square (the variance), *)
(*    and every comparison on s is made on s^2;                            *)
(*  - a merchant name is a sequence of one-character strings, so that the  *)
(*    normalisation of names is computed and not assumed.                  *)
(***************************************************************************)
EXTENDS Integers, Sequences, FiniteSets, TLC

\* The longest transaction list the specifications draw.
MaxTxns == 3

VARIABLES
    transactions,     \* the transaction snapshot handed to the core
    accounts,         \* the account list handed to analyzeFinances
    now,              \* Date.now(), in days
    analysis,         \* the last result of analyzeFinances
    prevAnalysis,     \* the result of the call before it
    subscriptions,    \* the last result of detectSubscriptionDrift
    sanitized,        \* the records built for the text-generation request
    scorerIn,         \* income analysis and total spending given to the scorer
    health,           \* the last result of calculateCashFlowHealth
    prevHealth,       \* the result of the call before it
    paymentPattern,   \* the last result of detectPaymentPattern
    frequencyPattern, \* the last result of detectFrequencyPattern
    incomeAnalysis,   \* the last result of detectIncome, called on its own
    frame,            \* the core operation called last on the snapshot
    requests,         \* the analysis requests in flight, each at its step
    locals,           \* the scopes holding the local values of those requests
    session,          \* the fields of the browser's encrypted session cookie
    response,         \* the last response of a route handler
    categorySpending, \* the last result of analyzeCategorySpending, called on its own
    insightsCall,     \* the arguments and the result of generateInsights, called on its own
    periodSpending,   \* the last results of the period aggregator, per horizon
    stream            \* the insight stream: the client component and the server's stream

vars == <<transactions, accounts, now, analysis, prevAnalysis, subscriptions,
          sanitized, scorerIn, health, prevHealth, paymentPattern,
          frequencyPattern, incomeAnalysis, frame, requests, locals, session,
          response, categorySpending,
               insightsCall, periodSpending, stream>>

\* The variables of the request handlers and of the operations called on
\* their own, which the actions of the main analysis leave alone.
laterVars == <<incomeAnalysis, frame, requests, locals, session, response,
               categorySpending,
               insightsCall, periodSpending, stream>>

\* A variable no call has written yet, and JavaScript's undefined.
NotCalled == [called |-> FALSE]
Undefined == [undefined |-> TRUE]

-----------------------------------------------------------------------------
(* Numbers *)

Abs(x) == IF x < 0 THEN -x ELSE x
Max(a, b) == IF a >= b THEN a ELSE b
Min(a, b) == IF a <= b THEN a ELSE b

RECURSIVE Gcd(_, _)
Gcd(a, b) == IF b = 0 THEN a ELSE Gcd(b, a % b)

\* The JavaScript number n / d.
Frac(n, d) ==
    IF d = 0 THEN [n |-> IF n > 0 THEN 1 ELSE IF n < 0 THEN -1 ELSE 0, d |-> 0]
    ELSE LET s == IF d < 0 THEN -1 ELSE 1
             g == Gcd(Abs(n), Abs(d))
         IN  [n |-> (s * n) \div g, d |-> (s * d) \div g]

FracInt(k) == [n |-> k, d |-> 1]
IsNaN(x) == x.n = 0 /\ x.d = 0
IsFinite(x) == x.d # 0

\* x / y and x * y on JavaScript numbers (0/0 is NaN, k/0 is +-Infinity).
FracDiv(x, y) ==
    IF IsNaN(x) \/ IsNaN(y) THEN Frac(0, 0)
    ELSE IF ~IsFinite(x) THEN (IF ~IsFinite(y) THEN Frac(0, 0)
                               ELSE Frac(IF y.n < 0 THEN -x.n ELSE x.n, 0))
    ELSE IF ~IsFinite(y) THEN FracInt(0)
    ELSE Frac(x.n * y.d, x.d * y.n)

FracMul(x, y) ==
    IF IsNaN(x) \/ IsNaN(y) THEN Frac(0, 0)
    ELSE IF ~IsFinite(x) \/ ~IsFinite(y)
         THEN (IF x.n = 0 \/ y.n = 0 THEN Frac(0, 0)
               ELSE Frac(IF (x.n < 0) # (y.n < 0) THEN -1 ELSE 1, 0))
    ELSE Frac(x.n * y.n, x.d * y.d)

\* a/b <= c/d for naturals a, c and positive b, d, by Euclid's algorithm:
\* no product is formed, so no intermediate value leaves the machine range.
RECURSIVE NatFracLE(_, _, _, _)
NatFracLE(a, b, c, d) ==
    LET qa == a \div b
        qc == c \div d
        ra == a % b
        rc == c % d
    IN  IF qa # qc THEN qa < qc
        ELSE IF ra = 0 THEN TRUE
        ELSE IF rc = 0 THEN FALSE
        ELSE NatFracLE(d, rc, b, ra)

\* x <= y, x < y, x >= y, x > y on JavaScript numbers: every comparison with
\* NaN is false.
FracLE(x, y) ==
    IF IsNaN(x) \/ IsNaN(y) THEN FALSE
    ELSE IF ~IsFinite(x) THEN (x.n < 0 \/ (~IsFinite(y) /\ y.n > 0))
    ELSE IF ~IsFinite(y) THEN y.n > 0
    ELSE IF x.n < 0 /\ y.n >= 0 THEN TRUE
    ELSE IF x.n >= 0 /\ y.n < 0 THEN FALSE
    ELSE IF x.n >= 0 THEN NatFracLE(x.n, x.d, y.n, y.d)
    ELSE NatFracLE(-y.n, y.d, -x.n, x.d)

FracLT(x, y) == FracLE(x, y) /\ x # y
FracGE(x, y) == FracLE(y, x)
FracGT(x, y) == FracLT(y, x)

\* Math.round of the finite number x: the integer nearest to x, a tie going up.
MathRound(x) ==
    LET m == 2 * x.n + x.d
        q == 2 * x.d
    IN  IF m >= 0 THEN m \div q ELSE -(((-m) + q - 1) \div q)

-----------------------------------------------------------------------------
(* Sequences *)

RECURSIVE SumSeq(_)
SumSeq(s) == IF s = <<>> THEN 0 ELSE Head(s) + SumSeq(Tail(s))

\* s.slice(0, k)
SliceTo(s, k) == SubSeq(s, 1, Min(k, Len(s)))

Amounts(s) == [i \in 1..Len(s) |-> s[i].amount]
Dates(s) == [i \in 1..Len(s) |-> s[i].date]

MaxOf(S) == CHOOSE x \in S : \A y \in S : y <= x
MinOf(S) == CHOOSE x \in S : \A y \in S : x <= y
Range(s) == {s[i] : i \in 1..Len(s)}

\* A variant of SortAscending: the list left in the order it came in.
SortAscendingUnsorted(s, key) == s

\* [...s].sort((a, b) => key(a) - key(b)): Array.prototype.sort is stable, so
\* the element at index i lands behind every element with a smaller key and
\* behind the elements before it with the same key.
SortAscending(s, key) ==
    LET n == Len(s)
        Pos(i) == 1 + Cardinality({j \in 1..n :
                        key[j] < key[i] \/ (key[j] = key[i] /\ j < i)})
    IN  [k \in 1..n |-> s[CHOOSE i \in 1..n : Pos(i) = k]]

\* A variant of SortDescending: the ascending order read backwards, which
\* turns the elements of equal keys around.
SortDescendingBackwards(s, key) ==
    LET up == SortAscending(s, key)
    IN  [k \in 1..Len(s) |-> up[Len(s) + 1 - k]]

\* s.sort((a, b) => key(b) - key(a))
SortDescending(s, key) == SortAscending(s, [i \in 1..Len(s) |-> -key[i]])

\* x.toFixed(2) and x.toFixed(0) of a finite x >= 0: the digits printed, as a
\* count of hundredths and of units.
ToFixed2(x) == MathRound(FracMul(x, FracInt(100)))
ToFixed0(x) == MathRound(x)

\* A variant of FracMax: the smaller of the two.
FracMaxAsMin(x, y) == IF FracGE(x, y) THEN y ELSE x

FracMax(x, y) == IF FracGE(x, y) THEN x ELSE y
FracMin(x, y) == IF FracLE(x, y) THEN x ELSE y
FracSub(x, y) == Frac(x.n * y.d - y.n * x.d, x.d * y.d)

-----------------------------------------------------------------------------
(* src/lib/categories.ts *)

\* pfc.primary.replace(/_/g, ' '), on the primary codes outside the mapping
\* that the specifications draw.
ReplaceUnderscores(primary) ==
    CASE primary = "LOAN_DISBURSEMENTS" -> "LOAN DISBURSEMENTS"
      [] primary = "OTHER" -> "OTHER"
      [] OTHER -> primary

mapPFCToFriendly(pfc) ==
    IF pfc = Undefined THEN "Other"
    ELSE CASE pfc.primary = "FOOD_RETAIL" -> "Groceries"
           [] pfc.primary = "FOOD_AND_DRINK" -> "Food & Drink"
           [] pfc.primary = "DINING" -> "Dining"
           [] pfc.primary = "ENTERTAINMENT" -> "Entertainment"
           [] pfc.primary = "TRANSPORTATION" -> "Transportation"
           [] pfc.primary = "GENERAL_MERCHANDISE" -> "Shopping"
           [] pfc.primary = "GENERAL_SERVICES" -> "Services"
           [] pfc.primary = "RENT_AND_UTILITIES" -> "Bills & Utilities"
           [] pfc.primary = "MEDICAL" -> "Healthcare"
           [] pfc.primary = "PERSONAL_CARE" -> "Personal Care"
           [] pfc.primary = "BANK_FEES" -> "Fees"
           [] pfc.primary = "TRANSFER_IN" -> "Income"
           [] pfc.primary = "TRANSFER_OUT" -> "Transfers"
           [] pfc.primary = "LOAN_PAYMENTS" -> "Loan Payments"
           [] pfc.primary = "HOME_IMPROVEMENT" -> "Home & Garden"
           [] pfc.primary = "GOVERNMENT_AND_NON_PROFIT" -> "Government & Non-Profit"
           [] pfc.primary = "TRAVEL" -> "Travel"
           [] pfc.primary = "INCOME" -> "Income"
           [] OTHER -> ReplaceUnderscores(pfc.primary)

subscriptionCategories == {"ENTERTAINMENT", "RENT_AND_UTILITIES", "GENERAL_SERVICES"}

\* A variant of isSubscriptionCategory: ENTERTAINMENT missing from the list.
isSubscriptionCategoryNoEntertainment(pfc) ==
    IF pfc = Undefined THEN FALSE
    ELSE pfc.primary \in subscriptionCategories \ {"ENTERTAINMENT"}

isSubscriptionCategory(pfc) ==
    IF pfc = Undefined THEN FALSE ELSE pfc.primary \in subscriptionCategories

excludedCategories ==
    {"FOOD_RETAIL", "FOOD_AND_DRINK", "DINING", "TRANSPORTATION",
     "GENERAL_MERCHANDISE", "TRAVEL", "MEDICAL", "PERSONAL_CARE"}

\* A variant of isNonSubscriptionCategory: DINING missing from the list.
isNonSubscriptionCategoryNoDining(pfc) ==
    IF pfc = Undefined THEN FALSE ELSE pfc.primary \in excludedCategories \ {"DINING"}

isNonSubscriptionCategory(pfc) ==
    IF pfc = Undefined THEN FALSE ELSE pfc.primary \in excludedCategories

-----------------------------------------------------------------------------
(* src/lib/analyzer.ts: income *)

\* The mean and the variance (the square of stdDev) of a non-empty sequence of
\* integers: sum / n and sum((a - mean)^2) / n = (n * sum(a^2) - sum^2) / n^2.
MeanOf(values) == Frac(SumSeq(values), Len(values))
VarianceOf(values) ==
    LET n == Len(values)
        sum == SumSeq(values)
        sumSq == SumSeq([i \in 1..n |-> values[i] * values[i]])
    IN  Frac(n * sumSq - sum * sum, n * n)

\* The intervals in days between consecutive elements.
Intervals(sorted) == [i \in 1..(Len(sorted) - 1) |-> sorted[i + 1].date - sorted[i].date]

\* A variant of ClassifyPayment: the lower edges of the bands excluded.
ClassifyPaymentExclusive(avgInterval) ==
    IF FracGT(avgInterval, FracInt(25)) /\ FracLE(avgInterval, FracInt(35)) THEN "monthly"
    ELSE IF FracGT(avgInterval, FracInt(12)) /\ FracLE(avgInterval, FracInt(16)) THEN "biweekly"
    ELSE IF FracGT(avgInterval, FracInt(5)) /\ FracLE(avgInterval, FracInt(9)) THEN "weekly"
    ELSE "irregular"

\* The cadence of an average interval on the income path.
ClassifyPayment(avgInterval) ==
    IF FracGE(avgInterval, FracInt(25)) /\ FracLE(avgInterval, FracInt(35)) THEN "monthly"
    ELSE IF FracGE(avgInterval, FracInt(12)) /\ FracLE(avgInterval, FracInt(16)) THEN "biweekly"
    ELSE IF FracGE(avgInterval, FracInt(5)) /\ FracLE(avgInterval, FracInt(9)) THEN "weekly"
    ELSE "irregular"

detectPaymentPattern(txns) ==
    IF Len(txns) < 2 THEN "irregular"
    ELSE LET sorted == SortAscending(txns, Dates(txns))
             intervals == Intervals(sorted)
             avgInterval == Frac(SumSeq(intervals), Len(intervals))
         IN  ClassifyPayment(avgInterval)

\* A variant of IsIncome: the filter written t.amount <= 0.
IsIncomeOrZero(t) == t.amount <= 0

\* A variant of IsSpending: a zero amount counts as spending.
IsSpendingOrZero(t) == "amount" \in DOMAIN t /\ t.amount >= 0

\* The filters t.amount < 0 and t.amount > 0: the amount of a record with no
\* amount field is undefined, and undefined < 0 and undefined > 0 are false.
IsIncome(t) == "amount" \in DOMAIN t /\ t.amount < 0
IsSpending(t) == "amount" \in DOMAIN t /\ t.amount > 0

detectIncome(txns) ==
    LET incomeTransactions == SelectSeq(txns, IsIncome)
    IN  IF Len(incomeTransactions) = 0
        THEN [totalIncome |-> 0, averageMonthly |-> FracInt(0), isVariable |-> FALSE,
              variabilitySq |-> FracInt(0), pattern |-> "irregular",
              lastPaycheck |-> Undefined, incomeTransactions |-> <<>>]
        ELSE LET amounts == [i \in 1..Len(incomeTransactions) |->
                                Abs(incomeTransactions[i].amount)]
                 totalIncome == SumSeq(amounts)
                 dates == Range(Dates(incomeTransactions))
                 dayRange == MaxOf(dates) - MinOf(dates)
                 monthRange == FracMax(FracInt(1), Frac(dayRange, 30))
                 averageMonthly == FracDiv(FracInt(totalIncome), monthRange)
                 mean == MeanOf(amounts)
                 variance == VarianceOf(amounts)
                 variabilitySq == IF FracGT(mean, FracInt(0))
                                  THEN FracDiv(variance, FracMul(mean, mean))
                                  ELSE FracInt(0)
             IN  [totalIncome |-> totalIncome,
                  averageMonthly |-> averageMonthly,
                  \* variability > 0.2, on the squares
                  isVariable |-> FracGT(variabilitySq, Frac(1, 25)),
                  variabilitySq |-> variabilitySq,
                  pattern |-> detectPaymentPattern(incomeTransactions),
                  lastPaycheck |-> [amount |-> Abs(incomeTransactions[1].amount),
                                    date |-> incomeTransactions[1].date],
                  incomeTransactions |-> incomeTransactions]

-----------------------------------------------------------------------------
(* src/lib/analyzer.ts: category spending *)

Category(t) == mapPFCToFriendly(t.personal_finance_category)

\* The keys of categoryMap in insertion order: each category at the place of
\* its first transaction.
RECURSIVE CategoryKeys(_, _)
CategoryKeys(spendingTxns, seen) ==
    IF spendingTxns = <<>> THEN <<>>
    ELSE LET c == Category(Head(spendingTxns))
         IN  IF c \in seen THEN CategoryKeys(Tail(spendingTxns), seen)
             ELSE <<c>> \o CategoryKeys(Tail(spendingTxns), seen \cup {c})

analyzeCategorySpending(txns) ==
    LET spendingTxns == SelectSeq(txns, IsSpending)
        keys == CategoryKeys(spendingTxns, {})
        totalSpending == SumSeq(Amounts(spendingTxns))
        Entry(category) ==
            LET InCategory(t) == Category(t) = category
                members == SelectSeq(spendingTxns, InCategory)
                total == SumSeq(Amounts(members))
                count == Len(members)
            IN  [category |-> category,
                 total |-> total,
                 count |-> count,
                 average |-> Frac(total, count),
                 percentage |-> IF totalSpending > 0
                                THEN FracMul(Frac(total, totalSpending), FracInt(100))
                                ELSE FracInt(0),
                 trend |-> "stable",
                 transactions |-> members]
        categories == [i \in 1..Len(keys) |-> Entry(keys[i])]
    IN  SortDescending(categories, [i \in 1..Len(categories) |-> categories[i].total])

-----------------------------------------------------------------------------
(* src/lib/analyzer.ts: cash flow health *)

\* A variant of NegativeBalanceScore: the lower clamp Math.max(0, ...) left out.
NegativeBalanceScoreNoFloor(balance) ==
    MathRound(FracMin(FracInt(35), FracSub(FracInt(35), Frac(Abs(balance), 100))))

\* Math.round(Math.max(0, Math.min(35, 35 - Math.abs(balance) / 100)))
NegativeBalanceScore(balance) ==
    MathRound(FracMax(FracInt(0),
                      FracMin(FracInt(35),
                              FracSub(FracInt(35), Frac(Abs(balance), 100)))))

\* A variant of RatioPoints: the two upper bands merged into the second.
RatioPointsThreeBands(incomeToSpendingRatio) ==
    IF FracGE(incomeToSpendingRatio, Frac(6, 5)) THEN 30
    ELSE IF FracGE(incomeToSpendingRatio, FracInt(1)) THEN 20
    ELSE IF FracGE(incomeToSpendingRatio, Frac(4, 5)) THEN 10
    ELSE 0

\* Income vs spending, up to 40 points.
RatioPoints(incomeToSpendingRatio) ==
    IF FracGE(incomeToSpendingRatio, Frac(3, 2)) THEN 40
    ELSE IF FracGE(incomeToSpendingRatio, Frac(6, 5)) THEN 30
    ELSE IF FracGE(incomeToSpendingRatio, FracInt(1)) THEN 20
    ELSE IF FracGE(incomeToSpendingRatio, Frac(4, 5)) THEN 10
    ELSE 0

\* A variant of StabilityPoints: nothing for the most variable incomes.
StabilityPointsNoFloor(income) ==
    IF ~income.isVariable THEN 20
    ELSE IF FracLT(income.variabilitySq, Frac(9, 100)) THEN 15
    ELSE IF FracLT(income.variabilitySq, Frac(1, 4)) THEN 10
    ELSE 0

\* Income variability, up to 20 points: variability < 0.3 and variability <
\* 0.5, on the squares.
StabilityPoints(income) ==
    IF ~income.isVariable THEN 20
    ELSE IF FracLT(income.variabilitySq, Frac(9, 100)) THEN 15
    ELSE IF FracLT(income.variabilitySq, Frac(1, 4)) THEN 10
    ELSE 5

calculateCashFlowHealth(income, spending, balance) ==
    LET monthlyIncome == income.averageMonthly
        dates == Range(Dates(income.incomeTransactions))
        monthRange == IF Len(income.incomeTransactions) > 0
                      THEN Frac(MaxOf(dates) - MinOf(dates), 30)
                      ELSE FracInt(1)
        monthlySpending == FracDiv(FracInt(spending), FracMax(FracInt(1), monthRange))
        incomeToSpendingRatio == IF FracGT(monthlyIncome, FracInt(0))
                                 THEN FracDiv(monthlyIncome, monthlySpending)
                                 ELSE FracInt(0)
        balanceToSpending == FracDiv(FracInt(balance), monthlySpending)
        ratioPoints == RatioPoints(incomeToSpendingRatio)
        balancePoints == IF FracGE(balanceToSpending, FracInt(2)) THEN 30
                         ELSE IF FracGE(balanceToSpending, FracInt(1)) THEN 20
                         ELSE IF FracGE(balanceToSpending, Frac(1, 2)) THEN 10
                         ELSE 0
        stabilityPoints == StabilityPoints(income)
        score == Min(100, Max(0, 50 + ratioPoints + balancePoints + stabilityPoints))
    IN  IF balance < 0
        THEN [score |-> NegativeBalanceScore(balance),
              status |-> "critical",
              message |-> [text |-> "You're currently in the red",
                           amount |-> ToFixed2(FracInt(Abs(balance)))],
              incomeToSpendingRatio |-> incomeToSpendingRatio]
        ELSE [score |-> score,
              status |-> IF score >= 75 THEN "healthy"
                         ELSE IF score >= 50 THEN "warning"
                         ELSE "critical",
              message |-> [text |-> IF score >= 75
                                        THEN "Your finances are in good shape"
                                    ELSE IF score >= 50
                                        THEN "Your cash flow needs attention"
                                    ELSE "Your finances need immediate attention"],
              incomeToSpendingRatio |-> incomeToSpendingRatio]

-----------------------------------------------------------------------------
(* src/lib/analyzer.ts: insights *)

\* A variant of HighSpendingInsight: a share of 30 or more.
HighSpendingInsightFrom30(categories) ==
    IF Len(categories) > 0 /\ FracGE(categories[1].percentage, FracInt(30))
    THEN <<[type |-> "high_spending",
            severity |-> "warning",
            title |-> [category |-> categories[1].category],
            description |-> [total |-> ToFixed2(FracInt(categories[1].total)),
                             percentage |-> ToFixed0(categories[1].percentage)],
            impact |-> ToFixed2(Frac(categories[1].total * 2, 10))]>>
    ELSE <<>>

\* clock is Date.now(), in days.
HighSpendingInsight(categories) ==
    IF Len(categories) > 0 /\ FracGT(categories[1].percentage, FracInt(30))
    THEN <<[type |-> "high_spending",
            severity |-> "warning",
            title |-> [category |-> categories[1].category],
            description |-> [total |-> ToFixed2(FracInt(categories[1].total)),
                             percentage |-> ToFixed0(categories[1].percentage)],
            impact |-> ToFixed2(Frac(categories[1].total * 2, 10))]>>
    ELSE <<>>

\* A variant of CashFlowInsight: a balance of half the monthly income or less.
CashFlowInsightAtHalf(income, balance, clock) ==
    IF /\ income.lastPaycheck # Undefined
       /\ FracLE(FracInt(balance), FracMul(income.averageMonthly, Frac(1, 2)))
       /\ clock - income.lastPaycheck.date > 7
    THEN <<[type |-> "cash_flow",
            severity |-> "warning",
            title |-> "Cash Flow Timing Gap",
            description |-> "Your balance is low relative to your monthly income pattern.",
            impact |-> ToFixed2(FracInt(income.lastPaycheck.amount))]>>
    ELSE <<>>

\* A variant of CashFlowInsight: the days counted from the latest income date.
CashFlowInsightFromLatest(income, balance, clock) ==
    IF /\ income.lastPaycheck # Undefined
       /\ FracLT(FracInt(balance), FracMul(income.averageMonthly, Frac(1, 2)))
       /\ clock - MaxOf(Range(Dates(income.incomeTransactions))) > 7
    THEN <<[type |-> "cash_flow",
            severity |-> "warning",
            title |-> "Cash Flow Timing Gap",
            description |-> "Your balance is low relative to your monthly income pattern.",
            impact |-> ToFixed2(FracInt(income.lastPaycheck.amount))]>>
    ELSE <<>>

CashFlowInsight(income, balance, clock) ==
    IF /\ income.lastPaycheck # Undefined
       /\ FracLT(FracInt(balance), FracMul(income.averageMonthly, Frac(1, 2)))
       /\ clock - income.lastPaycheck.date > 7
    THEN <<[type |-> "cash_flow",
            severity |-> "warning",
            title |-> "Cash Flow Timing Gap",
            description |-> "Your balance is low relative to your monthly income pattern.",
            impact |-> ToFixed2(FracInt(income.lastPaycheck.amount))]>>
    ELSE <<>>

\* A variant of PositiveInsight: a savings rate of 10 or more.
PositiveInsightFrom10(txns, income) ==
    IF FracGT(income.averageMonthly, FracInt(0))
    THEN LET spendingTotal == SumSeq(Amounts(SelectSeq(txns, IsSpending)))
             savingsRate == FracMul(Frac(income.totalIncome - spendingTotal,
                                         income.totalIncome), FracInt(100))
         IN  IF FracGE(savingsRate, FracInt(10))
             THEN <<[type |-> "positive",
                     severity |-> "info",
                     title |-> "Great Savings Rate!",
                     description |-> ToFixed0(savingsRate),
                     impact |-> ToFixed2(FracMul(FracMul(income.averageMonthly,
                                    FracDiv(savingsRate, FracInt(100))), FracInt(12)))]>>
             ELSE <<>>
    ELSE <<>>

\* A variant of PositiveInsight: the guards on the income and on the rate left out.
PositiveInsightUnguarded(txns, income) ==
    <<[type |-> "positive", severity |-> "info", title |-> "Great Savings Rate!"]>>

PositiveInsight(txns, income) ==
    IF FracGT(income.averageMonthly, FracInt(0))
    THEN LET spendingTotal == SumSeq(Amounts(SelectSeq(txns, IsSpending)))
             savingsRate == FracMul(Frac(income.totalIncome - spendingTotal,
                                         income.totalIncome), FracInt(100))
         IN  IF FracGT(savingsRate, FracInt(10))
             THEN <<[type |-> "positive",
                     severity |-> "info",
                     title |-> "Great Savings Rate!",
                     description |-> ToFixed0(savingsRate),
                     impact |-> ToFixed2(FracMul(FracMul(income.averageMonthly,
                                    FracDiv(savingsRate, FracInt(100))), FracInt(12)))]>>
             ELSE <<>>
    ELSE <<>>

\* A variant of generateInsights: the positive rule evaluated first.
generateInsightsPositiveFirst(txns, income, categories, balance, clock) ==
    PositiveInsight(txns, income)
        \o HighSpendingInsight(categories)
        \o CashFlowInsight(income, balance, clock)

generateInsights(txns, income, categories, balance, clock) ==
    HighSpendingInsight(categories)
        \o CashFlowInsight(income, balance, clock)
        \o PositiveInsight(txns, income)

-----------------------------------------------------------------------------
(* src/lib/analyzer.ts: the main analysis *)

\* A variant of CurrentBalance: the provider's reported balance when there is one.
CurrentBalanceReported(income, spendingTotal, accts) ==
    IF accts = <<>> THEN income.totalIncome - spendingTotal
    ELSE accts[1].balances.current

\* The balance is computed from the transactions only; _accounts is accepted
\* and never read.
CurrentBalance(income, spendingTotal, accts) == income.totalIncome - spendingTotal

analyzeFinances(txns, accts, clock) ==
    LET income == detectIncome(txns)
        categories == analyzeCategorySpending(txns)
        spendingTotal == SumSeq(Amounts(SelectSeq(txns, IsSpending)))
        currentBalance == CurrentBalance(income, spendingTotal, accts)
        cashFlowHealth == calculateCashFlowHealth(income, spendingTotal, currentBalance)
        insights == generateInsights(txns, income, categories, currentBalance, clock)
        savingsRate == IF income.totalIncome > 0
                       THEN FracMul(Frac(income.totalIncome - spendingTotal,
                                         income.totalIncome), FracInt(100))
                       ELSE FracInt(0)
        dayRange == IF Len(txns) > 0 THEN txns[1].date - txns[Len(txns)].date ELSE 1
        dailyAverage == Frac(spendingTotal, Max(1, dayRange))
    IN  [income |-> income,
         spending |-> [total |-> spendingTotal,
                       byCategory |-> categories,
                       topCategories |-> SliceTo(categories, 7),
                       dailyAverage |-> dailyAverage],
         balance |-> [current |-> currentBalance, trend |-> "stable"],
         cashFlowHealth |-> cashFlowHealth,
         insights |-> insights,
         savingsRate |-> savingsRate]

-----------------------------------------------------------------------------
(* src/lib/subscriptions.ts *)

UpperCase == <<"A", "B", "C", "D", "E", "F", "G", "H", "I", "J", "K", "L", "M",
               "N", "O", "P", "Q", "R", "S", "T", "U", "V", "W", "X", "Y", "Z">>
LowerCase == <<"a", "b", "c", "d", "e", "f", "g", "h", "i", "j", "k", "l", "m",
               "n", "o", "p", "q", "r", "s", "t", "u", "v", "w", "x", "y", "z">>
Digits == {"0", "1", "2", "3", "4", "5", "6", "7", "8", "9"}
Whitespace == {" ", "\t"}

\* c.toLowerCase()
ToLowerCase(c) ==
    IF c \in Range(UpperCase)
    THEN LowerCase[CHOOSE i \in 1..26 : UpperCase[i] = c]
    ELSE c

\* .replace(/[^a-z0-9\s]/g, '')
IsKept(c) == c \in Range(LowerCase) \cup Digits \cup Whitespace

\* .replace(/\s+/g, ' '): every run of whitespace becomes one space.
RECURSIVE CollapseWhitespace(_, _)
CollapseWhitespace(s, inRun) ==
    IF s = <<>> THEN <<>>
    ELSE IF Head(s) \in Whitespace
         THEN (IF inRun THEN <<>> ELSE <<" ">>) \o CollapseWhitespace(Tail(s), TRUE)
         ELSE <<Head(s)>> \o CollapseWhitespace(Tail(s), FALSE)

\* .trim()
RECURSIVE TrimStart(_)
TrimStart(s) ==
    IF s # <<>> /\ Head(s) \in Whitespace THEN TrimStart(Tail(s)) ELSE s

RECURSIVE TrimEnd(_)
TrimEnd(s) ==
    IF s # <<>> /\ s[Len(s)] \in Whitespace THEN TrimEnd(SubSeq(s, 1, Len(s) - 1)) ELSE s

\* .split(' '): the pieces between the spaces (one empty piece for '').
RECURSIVE SplitOnSpace(_, _)
SplitOnSpace(s, word) ==
    IF s = <<>> THEN <<word>>
    ELSE IF Head(s) = " " THEN <<word>> \o SplitOnSpace(Tail(s), <<>>)
    ELSE SplitOnSpace(Tail(s), Append(word, Head(s)))

\* .join(' ')
RECURSIVE JoinWithSpace(_)
JoinWithSpace(words) ==
    IF words = <<>> THEN <<>>
    ELSE IF Len(words) = 1 THEN words[1]
    ELSE words[1] \o <<" ">> \o JoinWithSpace(Tail(words))

normalizeMerchantName(name) ==
    LET lower == [i \in 1..Len(name) |-> ToLowerCase(name[i])]
        stripped == SelectSeq(lower, IsKept)
        collapsed == CollapseWhitespace(stripped, FALSE)
        trimmed == TrimEnd(TrimStart(collapsed))
    IN  JoinWithSpace(SliceTo(SplitOnSpace(trimmed, <<>>), 2))

\* merchant.includes(name)
Includes(s, sub) ==
    \E i \in 0..(Len(s) - Len(sub)) : SubSeq(s, i + 1, i + Len(sub)) = sub

nonSubscriptionMerchants ==
    {<<"m", "c", "d", "o", "n", "a", "l", "d", "s">>,
     <<"s", "t", "a", "r", "b", "u", "c", "k", "s">>,
     <<"d", "u", "n", "k", "i", "n">>,
     <<"c", "h", "i", "p", "o", "t", "l", "e">>,
     <<"s", "u", "b", "w", "a", "y">>,
     <<"w", "a", "l", "m", "a", "r", "t">>,
     <<"t", "a", "r", "g", "e", "t">>,
     <<"c", "o", "s", "t", "c", "o">>,
     <<"a", "m", "a", "z", "o", "n">>,
     <<"u", "b", "e", "r">>,
     <<"l", "y", "f", "t">>,
     <<"s", "h", "e", "l", "l">>,
     <<"c", "h", "e", "v", "r", "o", "n">>,
     <<"e", "x", "x", "o", "n">>,
     <<"b", "p">>,
     <<"7", " ", "e", "l", "e", "v", "e", "n">>,
     <<"c", "v", "s">>,
     <<"w", "a", "l", "g", "r", "e", "e", "n", "s">>}

IsNonSubscriptionMerchant(merchant) ==
    \E name \in nonSubscriptionMerchants : Includes(merchant, name)

\* The cadence of an average interval on the subscription path.
ClassifyFrequency(avgInterval) ==
    IF FracGE(avgInterval, FracInt(340)) /\ FracLE(avgInterval, FracInt(390)) THEN "annual"
    ELSE IF FracGE(avgInterval, FracInt(25)) /\ FracLE(avgInterval, FracInt(35)) THEN "monthly"
    ELSE IF FracGE(avgInterval, FracInt(5)) /\ FracLE(avgInterval, FracInt(9)) THEN "weekly"
    ELSE "irregular"

detectFrequencyPattern(txns) ==
    IF Len(txns) < 2 THEN [frequency |-> "irregular", averageAmount |-> FracInt(0)]
    ELSE LET sorted == SortAscending(txns, Dates(txns))
             intervals == [i \in 1..(Len(sorted) - 1) |->
                              MathRound(FracInt(sorted[i + 1].date - sorted[i].date))]
             avgInterval == Frac(SumSeq(intervals), Len(intervals))
         IN  [frequency |-> ClassifyFrequency(avgInterval),
              averageAmount |-> MeanOf(Amounts(sorted))]

\* calculateStatistics: the mean and the variance (stdDev squared).
calculateStatistics(values) ==
    IF Len(values) = 0 THEN [mean |-> FracInt(0), variance |-> FracInt(0)]
    ELSE [mean |-> MeanOf(values), variance |-> VarianceOf(values)]

\* A variant of calculateAnnualCost: the weekly and monthly factors exchanged.
calculateAnnualCostSwapped(averageAmount, frequency) ==
    CASE frequency = "weekly" -> FracMul(averageAmount, FracInt(12))
      [] frequency = "monthly" -> FracMul(averageAmount, FracInt(52))
      [] frequency = "annual" -> averageAmount
      [] frequency = "irregular" -> FracInt(0)

calculateAnnualCost(averageAmount, frequency) ==
    CASE frequency = "weekly" -> FracMul(averageAmount, FracInt(52))
      [] frequency = "monthly" -> FracMul(averageAmount, FracInt(12))
      [] frequency = "annual" -> averageAmount
      [] frequency = "irregular" -> FracInt(0)

\* (stdDev / mean)^2, the square of driftScore / 100, and 0 when mean is 0.
DriftSq(stats) ==
    IF FracGT(stats.mean, FracInt(0))
    THEN FracDiv(stats.variance, FracMul(stats.mean, stats.mean))
    ELSE FracInt(0)

\* A variant of DriftTooHigh: the threshold written 50.
DriftTooHighAt50(driftSq) == FracGT(driftSq, Frac(1, 4))

\* driftScore > 30, on the squares: (driftScore / 100)^2 > 0.09
DriftTooHigh(driftSq) == FracGT(driftSq, Frac(9, 100))

\* Math.round(driftScore * 100), the driftScore reported in hundredths: the
\* largest k with k - 1/2 <= 10000 * sqrt(driftSq), that is k = 0 or
\* (2k - 1)^2 / 400000000 <= driftSq. Searched in lo..hi by bisection.
RECURSIVE RoundedDrift(_, _, _)
RoundedDrift(driftSq, lo, hi) ==
    IF lo >= hi THEN lo
    ELSE LET mid == (lo + hi + 1) \div 2
         IN  IF NatFracLE((2 * mid - 1) * (2 * mid - 1), 400000000, driftSq.n, driftSq.d)
             THEN RoundedDrift(driftSq, mid, hi)
             ELSE RoundedDrift(driftSq, lo, mid - 1)

\* The keys of merchantGroups in insertion order.
RECURSIVE MerchantKeys(_, _)
MerchantKeys(debits, seen) ==
    IF debits = <<>> THEN <<>>
    ELSE LET m == normalizeMerchantName(Head(debits).name)
         IN  IF m \in seen THEN MerchantKeys(Tail(debits), seen)
             ELSE <<m>> \o MerchantKeys(Tail(debits), seen \cup {m})

\* One pass of the loop over merchantGroups: the patterns pushed for one
\* merchant, none or one.
AnalyzeMerchant(merchant, txns) ==
    IF Len(txns) < 2 THEN <<>>
    ELSE LET sorted == SortAscending(txns, Dates(txns))
             pfc == sorted[1].personal_finance_category
             pattern == detectFrequencyPattern(sorted)
             isMonthlyOrAnnual == pattern.frequency \in {"monthly", "annual"}
             hasRecurringFlag == sorted[1].recurring = TRUE
             inSubscriptionCategory == isSubscriptionCategory(pfc)
             stats == calculateStatistics(Amounts(sorted))
             driftSq == DriftSq(stats)
         IN  IF isNonSubscriptionCategory(pfc) THEN <<>>
             ELSE IF IsNonSubscriptionMerchant(merchant) THEN <<>>
             ELSE IF ~(/\ pattern.frequency # "irregular"
                       /\ (isMonthlyOrAnnual \/ hasRecurringFlag \/ inSubscriptionCategory))
                 THEN <<>>
             ELSE IF DriftTooHigh(driftSq) THEN <<>>
             ELSE <<[merchantName |-> merchant,
                     amount |-> stats.mean,
                     frequency |-> pattern.frequency,
                     transactionIds |-> [i \in 1..Len(sorted) |-> sorted[i].transaction_id],
                     lastCharge |-> sorted[Len(sorted)].date,
                     estimatedAnnualCost |-> calculateAnnualCost(stats.mean, pattern.frequency),
                     driftScore |-> RoundedDrift(driftSq, 0, 20000),
                     averageAmount |-> stats.mean,
                     standardDeviationSq |-> stats.variance]>>

RECURSIVE AnalyzeMerchants(_, _)
AnalyzeMerchants(keys, debits) ==
    IF keys = <<>> THEN <<>>
    ELSE LET InGroup(t) == normalizeMerchantName(t.name) = Head(keys)
         IN  AnalyzeMerchant(Head(keys), SelectSeq(debits, InGroup))
                 \o AnalyzeMerchants(Tail(keys), debits)

detectSubscriptionDrift(txns) ==
    IF Len(txns) = 0 THEN <<>>
    ELSE LET debits == SelectSeq(txns, IsSpending)
             found == AnalyzeMerchants(MerchantKeys(debits, {}), debits)
         IN  SortDescending(found, [i \in 1..Len(found) |-> found[i].driftScore])

-----------------------------------------------------------------------------
(* src/lib/plaid.ts *)

sanitizeForAI(transaction) ==
    LET pfc == transaction.personal_finance_category
    IN  [transaction_id |-> transaction.transaction_id,
         date |-> transaction.date,
         amount |-> transaction.amount,
         merchant |-> transaction.name,
         category |-> IF pfc = Undefined THEN "Other" ELSE pfc.primary]

-----------------------------------------------------------------------------
(* The transactions the specifications draw *)

\* Merchant names, as sequences of characters.
Netflix == <<"N", "e", "t", "f", "l", "i", "x">>
Employer == <<"A", "C", "M", "E", " ", "P", "a", "y", "r", "o", "l", "l">>
Cafe == <<"C", "a", "f", "e">>

Pfc(primary) == [primary |-> primary, detailed |-> primary, confidence_level |-> "HIGH"]

\* A provider transaction, before its place in the list gives it an identifier.
Txn(date, amount, name, pfc, recurring) ==
    [account_id |-> "acc_checking", account_owner |-> "Jane Doe",
     date |-> date, amount |-> amount, name |-> name,
     personal_finance_category |-> pfc, recurring |-> recurring]

WithId(t, i) ==
    [transaction_id |-> <<"txn", i>>, account_id |-> t.account_id,
     account_owner |-> t.account_owner, date |-> t.date, amount |-> t.amount,
     name |-> t.name, personal_finance_category |-> t.personal_finance_category,
     recurring |-> t.recurring]

\* Every list of at most MaxTxns transactions of the pool, identifiers unique.
ListsOver(pool) ==
    UNION {{[i \in 1..n |-> WithId(f[i], i)] : f \in [1..n -> pool]} : n \in 0..MaxTxns}

AnalysisPool ==
    {Txn(d, a, Employer, Pfc("INCOME"), FALSE) : d \in {0, 30}, a \in {-2000, -600}}
    \cup {Txn(14, -600, Employer, Undefined, FALSE), Txn(10, 0, Cafe, Undefined, FALSE)}
    \cup {Txn(10, 500, Cafe, Pfc("DINING"), FALSE),
          Txn(40, 300, Cafe, Pfc("DINING"), FALSE),
          Txn(10, 1600, Netflix, Pfc("ENTERTAINMENT"), FALSE),
          Txn(31, 500, Netflix, Pfc("ENTERTAINMENT"), FALSE),
          Txn(40, 500, Cafe, Undefined, FALSE),
          Txn(20, 2600, Cafe, Pfc("LOAN_DISBURSEMENTS"), FALSE)}

\* The account lists a caller may pass, with the provider's reported balances.
Account(id, current) == [account_id |-> id, balances |-> [current |-> current]]
AccountLists == {<<>>, <<Account("acc_checking", 12345), Account("acc_savings", -7)>>}

\* The instants at which the clock is read.
Clock == {35, 40}

-----------------------------------------------------------------------------
(* Specification of the main analysis *)

NothingCalled ==
    /\ accounts = <<>>
    /\ analysis = NotCalled
    /\ prevAnalysis = NotCalled
    /\ subscriptions = NotCalled
    /\ sanitized = NotCalled
    /\ health = NotCalled
    /\ prevHealth = NotCalled
    /\ paymentPattern = NotCalled
    /\ frequencyPattern = NotCalled
    /\ incomeAnalysis = NotCalled
    /\ frame = NotCalled
    /\ requests = <<>>
    /\ locals = <<>>
    /\ session = <<>>
    /\ response = NotCalled
    /\ categorySpending = NotCalled
    /\ insightsCall = NotCalled
    /\ periodSpending = NotCalled
    /\ stream = NotCalled

Init ==
    /\ transactions \in ListsOver(AnalysisPool)
    /\ now = MinOf(Clock)
    /\ scorerIn = NotCalled
    /\ NothingCalled

\* A caller runs analyzeFinances on the snapshot, with some account list.
AnalyzeFinances ==
    \E accts \in AccountLists :
        /\ accounts' = accts
        /\ analysis' = [called |-> TRUE, clock |-> now,
                        result |-> analyzeFinances(transactions, accts, now)]
        /\ prevAnalysis' = analysis
        /\ UNCHANGED <<transactions, now, subscriptions, sanitized, scorerIn,
                       health, prevHealth, paymentPattern, frequencyPattern, laterVars>>

\* Wall-clock time passes.
Tick ==
    \E t \in Clock :
        /\ t > now
        /\ now' = t
        /\ UNCHANGED <<transactions, accounts, analysis, prevAnalysis, subscriptions,
                       sanitized, scorerIn, health, prevHealth, paymentPattern,
                       frequencyPattern, laterVars>>

Next == AnalyzeFinances \/ Tick

Spec == Init /\ [][Next]_vars

-----------------------------------------------------------------------------
(* Specification of the cash flow health scorer, called on its own *)

PaycheckPool ==
    {Txn(0, -2000, Employer, Pfc("INCOME"), FALSE),
     Txn(30, -2000, Employer, Pfc("INCOME"), FALSE),
     Txn(75, -900, Employer, Undefined, FALSE),
     Txn(45, -1200, Employer, Undefined, FALSE),
     Txn(60, -200, Employer, Undefined, FALSE)}

Spendings == {0, 1500, 5200}

Balances == {-5000, -3500, -3450, -3449, -150, -50, -49, 0, 300, 9000}

InitHealth ==
    /\ transactions \in ListsOver(PaycheckPool)
    /\ scorerIn \in {[income |-> detectIncome(transactions), spending |-> sp] :
                        sp \in Spendings}
    /\ now = MinOf(Clock)
    /\ NothingCalled

\* A caller scores the income analysis and the spending with some balance.
CalculateCashFlowHealth ==
    \E balance \in Balances :
        /\ health' = [called |-> TRUE, balance |-> balance,
                      result |-> calculateCashFlowHealth(scorerIn.income,
                                                         scorerIn.spending, balance)]
        /\ prevHealth' = health
        /\ UNCHANGED <<transactions, accounts, now, analysis, prevAnalysis,
                       subscriptions, sanitized, scorerIn, paymentPattern,
                       frequencyPattern, laterVars>>

NextHealth == CalculateCashFlowHealth

SpecHealth == InitHealth /\ [][NextHealth]_vars

-----------------------------------------------------------------------------
(* Specification of the subscription detector *)

NetflixShout == <<"N", "E", "T", "F", "L", "I", "X", "!">>
Hulu == <<"H", "u", "l", "u", " ", "L", "L", "C", " ", "8", "8">>
HuluPlain == <<"h", "u", "l", "u", " ", " ", "l", "l", "c">>
AmazonPrime == <<"A", "m", "a", "z", "o", "n", " ", "P", "r", "i", "m", "e">>

ChargePool ==
    {Txn(0, 15, Netflix, Pfc("ENTERTAINMENT"), FALSE),
     Txn(30, 15, Netflix, Pfc("ENTERTAINMENT"), FALSE),
     Txn(60, 15, NetflixShout, Pfc("ENTERTAINMENT"), FALSE),
     Txn(7, 15, Netflix, Pfc("ENTERTAINMENT"), FALSE),
     Txn(365, 15, Netflix, Undefined, FALSE),
     Txn(30, 13, Netflix, Undefined, TRUE),
     Txn(60, 7, Netflix, Pfc("LOAN_PAYMENTS"), FALSE),
     Txn(0, 7, Netflix, Pfc("FOOD_RETAIL"), FALSE),
     Txn(0, 15, Netflix, Pfc("DINING"), TRUE),
     Txn(7, 16, Netflix, Pfc("LOAN_PAYMENTS"), FALSE),
     Txn(30, -15, Netflix, Pfc("ENTERTAINMENT"), FALSE),
     Txn(0, 40, Hulu, Pfc("GENERAL_SERVICES"), FALSE),
     Txn(31, 44, HuluPlain, Undefined, FALSE),
     Txn(0, 15, AmazonPrime, Pfc("ENTERTAINMENT"), FALSE),
     Txn(30, 15, AmazonPrime, Pfc("ENTERTAINMENT"), FALSE)}

InitSubscriptions ==
    /\ transactions \in ListsOver(ChargePool)
    /\ now = MinOf(Clock)
    /\ scorerIn = NotCalled
    /\ NothingCalled

DetectSubscriptionDrift ==
    /\ subscriptions' = [called |-> TRUE, result |-> detectSubscriptionDrift(transactions)]
    /\ UNCHANGED <<transactions, accounts, now, analysis, prevAnalysis, sanitized,
                   scorerIn, health, prevHealth, paymentPattern, frequencyPattern, laterVars>>

NextSubscriptions == DetectSubscriptionDrift

SpecSubscriptions == InitSubscriptions /\ [][NextSubscriptions]_vars

-----------------------------------------------------------------------------
(* Specification of the cadence classifiers, called on their own *)

CadenceDates == {0, 4, 9, 14, 16, 25, 30, 35, 36, 365, 390, 391}

CadencePool == {Txn(d, 20, Netflix, Undefined, FALSE) : d \in CadenceDates}

InitCadence ==
    /\ transactions \in ListsOver(CadencePool)
    /\ now = MinOf(Clock)
    /\ scorerIn = NotCalled
    /\ NothingCalled

DetectPaymentPattern ==
    /\ paymentPattern' = [called |-> TRUE, result |-> detectPaymentPattern(transactions)]
    /\ UNCHANGED <<transactions, accounts, now, analysis, prevAnalysis, subscriptions,
                   sanitized, scorerIn, health, prevHealth, frequencyPattern, laterVars>>

DetectFrequencyPattern ==
    /\ frequencyPattern' = [called |-> TRUE,
                            result |-> detectFrequencyPattern(transactions)]
    /\ UNCHANGED <<transactions, accounts, now, analysis, prevAnalysis, subscriptions,
                   sanitized, scorerIn, health, prevHealth, paymentPattern, laterVars>>

NextCadence == DetectPaymentPattern \/ DetectFrequencyPattern

SpecCadence == InitCadence /\ [][NextCadence]_vars

-----------------------------------------------------------------------------
(* Specification of the sanitized records of the text-generation request *)

RecordPool ==
    {[Txn(3, 42, Netflix, Pfc("ENTERTAINMENT"), FALSE)
        EXCEPT !.account_id = acct, !.account_owner = owner] :
        acct \in {"acc_checking", "acc_savings"}, owner \in {"Jane Doe", "John Roe"}}
    \cup {Txn(9, -2000, Employer, Undefined, FALSE), Txn(5, 8, Cafe, Pfc("DINING"), TRUE)}

InitSanitize ==
    /\ transactions \in ListsOver(RecordPool)
    /\ now = MinOf(Clock)
    /\ scorerIn = NotCalled
    /\ NothingCalled

\* sanitizedData.recentTransactions of the insight stream's request handler.
SanitizeRecentTransactions ==
    /\ sanitized' = [called |-> TRUE,
                     result |-> LET recent == SliceTo(transactions, 15)
                                IN  [i \in 1..Len(recent) |-> sanitizeForAI(recent[i])]]
    /\ UNCHANGED <<transactions, accounts, now, analysis, prevAnalysis, subscriptions,
                   scorerIn, health, prevHealth, paymentPattern, frequencyPattern, laterVars>>

NextSanitize == SanitizeRecentTransactions

SpecSanitize == InitSanitize /\ [][NextSanitize]_vars

-----------------------------------------------------------------------------
(* Properties *)

\* The indices of the snapshot, and the sums the properties compare against.
Indices == 1..Len(transactions)
IdsOf(s) == {s[i].transaction_id : i \in 1..Len(s)}

RECURSIVE SumAbsAmounts(_)
SumAbsAmounts(I) ==
    IF I = {} THEN 0
    ELSE LET i == CHOOSE j \in I : TRUE
         IN  Abs(transactions[i].amount) + SumAbsAmounts(I \ {i})

\* C1: analyzeFinances counts a transaction as income exactly when its amount
\* is < 0 and as spending exactly when its amount is > 0: none is counted in
\* both, a zero amount is counted in neither, each is counted once,
\* income.totalIncome is the sum of |amount| over the income transactions and
\* spending.total (also the sum of the category totals) is the sum of the
\* amounts over the spending transactions.
C1_IncomeSpendingPartition ==
    analysis.called =>
        LET r == analysis.result
            incomeIds == IdsOf(r.income.incomeTransactions)
            byCategory == r.spending.byCategory
            spendingIds == UNION {IdsOf(byCategory[c].transactions) :
                                    c \in 1..Len(byCategory)}
            negative == {i \in Indices : transactions[i].amount < 0}
            positive == {i \in Indices : transactions[i].amount > 0}
        IN  /\ \A i \in Indices :
                /\ transactions[i].transaction_id \in incomeIds <=> i \in negative
                /\ transactions[i].transaction_id \in spendingIds <=> i \in positive
                /\ transactions[i].amount = 0 =>
                       transactions[i].transaction_id \notin incomeIds \cup spendingIds
            /\ incomeIds \cap spendingIds = {}
            /\ Len(r.income.incomeTransactions) = Cardinality(negative)
            /\ SumSeq([c \in 1..Len(byCategory) |-> byCategory[c].count])
                   = Cardinality(positive)
            /\ r.income.totalIncome = SumAbsAmounts(negative)
            /\ r.spending.total = SumAbsAmounts(positive)
            /\ SumSeq([c \in 1..Len(byCategory) |-> byCategory[c].total])
                   = r.spending.total

\* C1 happens: a list with an income, a zero and a spending amount was analysed.
C1_Witness ==
    /\ analysis.called
    /\ \E i, j, k \in Indices :
           /\ transactions[i].amount < 0
           /\ transactions[j].amount = 0
           /\ transactions[k].amount > 0

\* C2: in every result of analyzeFinances balance.current is income.totalIncome
\* minus spending.total, whatever the account list and its reported balances,
\* and the health score and the insights of the result are those computed
\* from that balance.
C2_BalanceFromTransactions ==
    analysis.called =>
        LET r == analysis.result
            computed == r.income.totalIncome - r.spending.total
        IN  /\ r.balance.current = computed
            /\ r.cashFlowHealth
                   = calculateCashFlowHealth(r.income, r.spending.total, computed)
            /\ r.insights = generateInsights(transactions, r.income,
                                             r.spending.byCategory, computed,
                                             analysis.clock)

\* C2 happens: an analysis ran with accounts whose reported balance is not the
\* balance of the result.
C2_Witness ==
    /\ analysis.called
    /\ accounts # <<>>
    /\ Len(transactions) > 0
    /\ \A a \in 1..Len(accounts) :
           accounts[a].balances.current # analysis.result.balance.current

\* C5, as claimed: two calls of analyzeFinances on the same unchanged list give
\* identical results, whatever the time of each call.
C5_SameResultAtAnyTime ==
    (analysis.called /\ prevAnalysis.called) => analysis.result = prevAnalysis.result

\* C3: whenever the balance given to the scorer is < 0 the status is critical
\* and the score is an integer in 0..35, and of two negative balances scored
\* with the same income and spending the deeper one never scores higher.
C3_NegativeBalanceIsCritical ==
    (health.called /\ health.balance < 0) =>
        /\ health.result.status = "critical"
        /\ health.result.score \in 0..35
        /\ (prevHealth.called /\ prevHealth.balance < 0) =>
               /\ health.balance <= prevHealth.balance =>
                      health.result.score <= prevHealth.result.score
               /\ health.balance >= prevHealth.balance =>
                      health.result.score >= prevHealth.result.score

\* C3 happens: two negative balances were scored, the deeper one lower, for an
\* income analysis with income and a positive spending.
C3_Witness ==
    /\ health.called
    /\ prevHealth.called
    /\ health.balance < prevHealth.balance
    /\ prevHealth.balance < 0
    /\ health.result.score < prevHealth.result.score
    /\ scorerIn.income.totalIncome > 0
    /\ scorerIn.spending > 0

\* The merchant groups of the snapshot, as the properties see them: the
\* positive-amount transactions under one normalized key; the earliest member
\* is the first of the group in date order, the first in the list among those
\* of the same date.
GroupKeys ==
    {normalizeMerchantName(transactions[i].name) :
        i \in {j \in Indices : transactions[j].amount > 0}}
Group(key) ==
    {i \in Indices : /\ transactions[i].amount > 0
                     /\ normalizeMerchantName(transactions[i].name) = key}
Earliest(G) ==
    CHOOSE i \in G : \A j \in G :
        \/ transactions[i].date < transactions[j].date
        \/ (transactions[i].date = transactions[j].date /\ i <= j)
PrimaryOf(i) ==
    IF transactions[i].personal_finance_category = Undefined THEN "none"
    ELSE transactions[i].personal_finance_category.primary
PatternsOf(key) ==
    {p \in 1..Len(subscriptions.result) : subscriptions.result[p].merchantName = key}

\* The elements of s at the indices in keep, in the order of s.
RECURSIVE FilterFrom(_, _, _)
FilterFrom(s, keep, i) ==
    IF i > Len(s) THEN <<>>
    ELSE IF i \in keep THEN <<s[i]>> \o FilterFrom(s, keep, i + 1)
    ELSE FilterFrom(s, keep, i + 1)

GroupList(G) == FilterFrom(transactions, G, 1)

\* C4: every pattern detectSubscriptionDrift returns has at least 2 member
\* transaction ids and a driftScore of at most 30 (3000 hundredths).
C4_TwoMembersAndDriftAtMost30 ==
    subscriptions.called =>
        \A p \in 1..Len(subscriptions.result) :
            /\ Cardinality(Range(subscriptions.result[p].transactionIds)) >= 2
            /\ subscriptions.result[p].driftScore <= 3000

\* C4 happens: a pattern of two charges with a drift of exactly 30 was
\* returned.
C4_Witness ==
    /\ subscriptions.called
    /\ \E p \in 1..Len(subscriptions.result) :
           /\ Len(subscriptions.result[p].transactionIds) = 2
           /\ subscriptions.result[p].driftScore = 3000

\* The exclusion set as the specification lists it: groceries, dining,
\* transportation, general merchandise, travel, medical, personal care.
ListedExclusions ==
    {"FOOD_RETAIL", "DINING", "TRANSPORTATION", "GENERAL_MERCHANDISE", "TRAVEL",
     "MEDICAL", "PERSONAL_CARE"}

\* C7: a merchant group whose earliest member carries a category of the
\* exclusion set never produces a pattern, whatever its cadence, recurring
\* flag, drift or the categories of its later members.
C7_ExcludedEarliestNeverSubscription ==
    subscriptions.called =>
        \A key \in GroupKeys :
            PrimaryOf(Earliest(Group(key))) \in ListedExclusions
                => PatternsOf(key) = {}

\* C7 happens: a group of monthly cadence and a drift of at most 30, with a
\* later member that carries the recurring flag and no excluded category, was
\* dropped because its earliest member is in the exclusion set.
C7_Witness ==
    /\ subscriptions.called
    /\ \E key \in GroupKeys :
           LET G == Group(key)
               members == GroupList(G)
           IN  /\ Cardinality(G) >= 2
               /\ PrimaryOf(Earliest(G)) \in ListedExclusions
               /\ \E j \in G : /\ transactions[j].recurring
                               /\ PrimaryOf(j) \notin ListedExclusions
                               /\ transactions[j].date > transactions[Earliest(G)].date
               /\ detectFrequencyPattern(members).frequency = "monthly"
               /\ ~DriftTooHigh(DriftSq(calculateStatistics(Amounts(members))))
               /\ ~IsNonSubscriptionMerchant(key)
               /\ PatternsOf(key) = {}

\* C8, as claimed: detectSubscriptionDrift never emits a pattern whose
\* frequency is weekly or irregular; every emitted frequency is monthly or
\* annual.
C8_OnlyMonthlyOrAnnual ==
    subscriptions.called =>
        \A p \in 1..Len(subscriptions.result) :
            subscriptions.result[p].frequency \in {"monthly", "annual"}

\* The first half of C10, on every emitted pattern: amount and averageAmount
\* are the mean of the member charges, lastCharge is the latest member date,
\* transactionIds are the members of the group in ascending date order, and
\* estimatedAnnualCost is mean x 12 for monthly and the mean for annual.
PatternFieldsRight(p) ==
    LET G == Group(p.merchantName)
        mean == Frac(SumAbsAmounts(G), Cardinality(G))
        DateOf(id) == transactions[CHOOSE i \in Indices :
                                       transactions[i].transaction_id = id].date
    IN  /\ G # {}
        /\ Range(p.transactionIds) = {transactions[i].transaction_id : i \in G}
        /\ Len(p.transactionIds) = Cardinality(G)
        /\ p.amount = mean
        /\ p.averageAmount = mean
        /\ p.lastCharge = MaxOf({transactions[i].date : i \in G})
        /\ \A a, b \in 1..Len(p.transactionIds) :
               a < b => DateOf(p.transactionIds[a]) <= DateOf(p.transactionIds[b])
        /\ p.frequency = "monthly" => p.estimatedAnnualCost = FracMul(mean, FracInt(12))
        /\ p.frequency = "annual" => p.estimatedAnnualCost = mean

\* n >= 2 identical charges in an inclusion category at 30-day gaps.
IdenticalMonthlyCharges(G) ==
    LET dates == {transactions[i].date : i \in G}
    IN  /\ Cardinality(G) >= 2
        /\ \A i, j \in G : transactions[i].amount = transactions[j].amount
        /\ \A i \in G : PrimaryOf(i) \in subscriptionCategories
        /\ Cardinality(dates) = Cardinality(G)
        /\ \A d \in dates : d = MinOf(dates) \/ (d - 30) \in dates

\* Exactly one pattern for the key: monthly, drift 0, annual cost 12a.
OneMonthlyPattern(key) ==
    /\ Cardinality(PatternsOf(key)) = 1
    /\ \A p \in PatternsOf(key) :
           /\ subscriptions.result[p].frequency = "monthly"
           /\ subscriptions.result[p].driftScore = 0
           /\ subscriptions.result[p].estimatedAnnualCost
                  = FracInt(12 * transactions[Earliest(Group(key))].amount)

\* C10, as claimed: the fields of every emitted pattern are right, and n >= 2
\* identical charges of amount a to one merchant in an inclusion category at
\* 30-day gaps yield exactly one pattern, monthly, with driftScore 0 and
\* estimatedAnnualCost 12a.
C10_AsClaimed ==
    subscriptions.called =>
        /\ \A p \in 1..Len(subscriptions.result) :
               PatternFieldsRight(subscriptions.result[p])
        /\ \A key \in GroupKeys :
               IdenticalMonthlyCharges(Group(key)) => OneMonthlyPattern(key)

\* C10, amended: the same, for a merchant whose normalized name contains none
\* of the blocklisted brand substrings.
C10_PatternFields ==
    subscriptions.called =>
        /\ \A p \in 1..Len(subscriptions.result) :
               PatternFieldsRight(subscriptions.result[p])
        /\ \A key \in GroupKeys :
               (IdenticalMonthlyCharges(Group(key)) /\ ~IsNonSubscriptionMerchant(key))
                   => OneMonthlyPattern(key)

\* C10 happens: three identical charges of 15 at 30-day gaps gave one monthly
\* pattern of drift 0 and annual cost 180, its ids in date order and not in
\* list order.
C10_Witness ==
    /\ subscriptions.called
    /\ \E key \in GroupKeys :
           /\ IdenticalMonthlyCharges(Group(key))
           /\ Cardinality(Group(key)) = 3
           /\ OneMonthlyPattern(key)
           /\ \A p \in PatternsOf(key) :
                  /\ subscriptions.result[p].estimatedAnnualCost = FracInt(180)
                  /\ subscriptions.result[p].transactionIds
                         # [i \in 1..3 |-> transactions[i].transaction_id]

\* C6, as claimed: every sanitized transaction record holds only the fields
\* date, amount, merchant and category, and no identifier, account or owner
\* of the input transaction.
C6_OnlyDateAmountMerchantCategory ==
    sanitized.called =>
        \A i \in 1..Len(sanitized.result) :
            DOMAIN sanitized.result[i] = {"date", "amount", "merchant", "category"}

\* The cadence the claim gives for n dates, on each path: a function of the
\* average gap of the dates in ascending order, that is of the sum of the
\* gaps and of n - 1.
GapSum(dates) ==
    LET sorted == SortSeq(dates, <)
    IN  SumSeq([i \in 1..(Len(sorted) - 1) |-> sorted[i + 1] - sorted[i]])
InBand(sum, gaps, low, high) == low * gaps <= sum /\ sum <= high * gaps
IncomeCadence(dates) ==
    LET sum == GapSum(dates)
        gaps == Len(dates) - 1
    IN  IF Len(dates) < 2 THEN "irregular"
        ELSE IF InBand(sum, gaps, 25, 35) THEN "monthly"
        ELSE IF InBand(sum, gaps, 12, 16) THEN "biweekly"
        ELSE IF InBand(sum, gaps, 5, 9) THEN "weekly"
        ELSE "irregular"
SubscriptionCadence(dates) ==
    LET sum == GapSum(dates)
        gaps == Len(dates) - 1
    IN  IF Len(dates) < 2 THEN "irregular"
        ELSE IF InBand(sum, gaps, 340, 390) THEN "annual"
        ELSE IF InBand(sum, gaps, 25, 35) THEN "monthly"
        ELSE IF InBand(sum, gaps, 5, 9) THEN "weekly"
        ELSE "irregular"
Reordered(pi) == [i \in Indices |-> transactions[pi[i]]]

\* C9: the cadence is a function of the average gap between the date-sorted
\* transactions alone, with inclusive bands: income path [25,35] monthly,
\* [12,16] biweekly, [5,9] weekly; subscription path [340,390] annual, [25,35]
\* monthly, [5,9] weekly; anything else, and fewer than 2 transactions,
\* irregular; and it is the same for every order of the input.
C9_CadenceBands ==
    /\ paymentPattern.called =>
           /\ paymentPattern.result = IncomeCadence(Dates(transactions))
           /\ \A pi \in Permutations(Indices) :
                  detectPaymentPattern(Reordered(pi)) = paymentPattern.result
    /\ frequencyPattern.called =>
           /\ frequencyPattern.result.frequency = SubscriptionCadence(Dates(transactions))
           /\ \A pi \in Permutations(Indices) :
                  detectFrequencyPattern(Reordered(pi)).frequency
                      = frequencyPattern.result.frequency

\* C9 happens: three transactions given out of date order, 15 days apart on
\* average, were classified biweekly on the income path and irregular on the
\* subscription path.
C9_Witness ==
    /\ paymentPattern.called
    /\ frequencyPattern.called
    /\ Len(transactions) = 3
    /\ transactions[1].date > transactions[2].date
    /\ GapSum(Dates(transactions)) = 30
    /\ paymentPattern.result = "biweekly"
    /\ frequencyPattern.result.frequency = "irregular"

-----------------------------------------------------------------------------
(* Specification of both entry points on empty and degenerate snapshots *)

\* Snapshots with no transaction, no income, no spending, one charge per
\* merchant or zero amounts only, among ordinary ones.
DegeneratePool ==
    {Txn(0, -2000, Employer, Pfc("INCOME"), FALSE),
     Txn(30, -600, Employer, Undefined, FALSE),
     Txn(10, 0, Cafe, Undefined, FALSE),
     Txn(12, 0, Netflix, Pfc("ENTERTAINMENT"), TRUE),
     Txn(0, 15, Netflix, Pfc("ENTERTAINMENT"), FALSE),
     Txn(30, 15, Netflix, Pfc("ENTERTAINMENT"), FALSE),
     Txn(10, 500, Cafe, Pfc("DINING"), FALSE)}

InitDegenerate ==
    /\ transactions \in ListsOver(DegeneratePool)
    /\ now \in Clock
    /\ scorerIn = NotCalled
    /\ NothingCalled

\* The comprehensive analysis runs both on the same snapshot.
NextDegenerate == AnalyzeFinances \/ DetectSubscriptionDrift

SpecDegenerate == InitDegenerate /\ [][NextDegenerate]_vars

-----------------------------------------------------------------------------
(* Properties of the empty and degenerate cases *)

IncomeIndices == {i \in Indices : transactions[i].amount < 0}
SpendingIndices == {i \in Indices : transactions[i].amount > 0}

\* The defined empty case of the income analysis.
ZeroIncome(income) ==
    /\ income.totalIncome = 0
    /\ income.averageMonthly = FracInt(0)
    /\ income.variabilitySq = FracInt(0)
    /\ income.isVariable = FALSE
    /\ income.pattern = "irregular"
    /\ income.incomeTransactions = <<>>

\* No merchant was charged twice: every group of the detector has one member.
OneChargePerMerchant ==
    \A i, j \in SpendingIndices :
        normalizeMerchantName(transactions[i].name)
            = normalizeMerchantName(transactions[j].name) => i = j

\* What the degenerate cases share, whatever the reading of the insight list.
DegenerateFallbacks ==
    /\ analysis.called =>
           /\ DOMAIN analysis.result
                  = {"income", "spending", "balance", "cashFlowHealth", "insights",
                     "savingsRate"}
           /\ IncomeIndices = {} => ZeroIncome(analysis.result.income)
           /\ SpendingIndices = {} => analysis.result.spending.byCategory = <<>>
           /\ analysis.result.income.totalIncome = 0 =>
                  analysis.result.savingsRate = FracInt(0)
    /\ subscriptions.called =>
           (OneChargePerMerchant => subscriptions.result = <<>>)

\* C11, as claimed: on empty or degenerate input both entry points return a
\* result; with no income the income analysis is the zero one; with no
\* spending the category list and the insight list are empty; savingsRate is
\* 0 when total income is 0; the detector returns the empty list.
C11_AsClaimed ==
    /\ DegenerateFallbacks
    /\ analysis.called =>
           (SpendingIndices = {} => analysis.result.insights = <<>>)

\* C11, amended: the same, the insight list being empty when there is neither
\* spending nor income; with income and no spending it holds the positive
\* insight alone.
C11_DegenerateFallbacks ==
    /\ DegenerateFallbacks
    /\ analysis.called =>
           /\ SpendingIndices = {} /\ IncomeIndices = {} =>
                  analysis.result.insights = <<>>
           /\ SpendingIndices = {} /\ IncomeIndices # {} =>
                  /\ Len(analysis.result.insights) = 1
                  /\ analysis.result.insights[1].type = "positive"

\* C11 happens: a snapshot of zero amounts only was analysed by both entry
\* points.
C11_Witness ==
    /\ analysis.called
    /\ subscriptions.called
    /\ Len(transactions) = 2
    /\ \A i \in Indices : transactions[i].amount = 0
    /\ analysis.result.insights = <<>>
    /\ subscriptions.result = <<>>

-----------------------------------------------------------------------------
(* Specification of both entry points on snapshots with malformed records *)

\* The record as the provider sent it, with one field missing.
Without(t, field) == [f \in DOMAIN t \ {field} |-> t[f]]

MalformedPool ==
    {Txn(0, -2000, Employer, Pfc("INCOME"), FALSE),
     Txn(0, 15, Netflix, Pfc("ENTERTAINMENT"), FALSE),
     Txn(30, 15, Netflix, Pfc("ENTERTAINMENT"), FALSE),
     Txn(10, 500, Cafe, Pfc("DINING"), FALSE)}

\* Snapshots in which any records lack the amount.
InitMalformed ==
    /\ transactions \in
           {[i \in 1..Len(l) |-> IF i \in missing THEN Without(l[i], "amount") ELSE l[i]] :
               <<l, missing>> \in {<<l, missing>> \in
                   ListsOver(MalformedPool) \X SUBSET (1..MaxTxns) :
                       missing \subseteq 1..Len(l)}}
    /\ now \in Clock
    /\ scorerIn = NotCalled
    /\ NothingCalled

NextMalformed == AnalyzeFinances \/ DetectSubscriptionDrift

SpecMalformed == InitMalformed /\ [][NextMalformed]_vars

\* A record that violates the data model: a required field is missing.
RequiredFields == {"transaction_id", "date", "amount", "name"}
IsMalformed(t) == ~(RequiredFields \subseteq DOMAIN t)
MalformedIndices == {i \in Indices : IsMalformed(transactions[i])}

\* An outcome that is an error naming a record of the snapshot, and no result.
IsErrorNaming(outcome, I) ==
    /\ DOMAIN outcome = {"called", "error"}
    /\ outcome.error \in {transactions[i].transaction_id : i \in I}

\* C12: when a transaction of the snapshot violates the data model, the
\* operation fails with an error that identifies the offending record and
\* returns no analysis result.
C12_MalformedInputFails ==
    MalformedIndices # {} =>
        /\ analysis.called => IsErrorNaming(analysis, MalformedIndices)
        /\ subscriptions.called => IsErrorNaming(subscriptions, MalformedIndices)

-----------------------------------------------------------------------------
(* The arrays the core operations read and write *)

\* Arrays live in a heap, a sequence of arrays addressed by position; an
\* operation is given the heap and the place of its argument, and gives back
\* the heap it leaves and the place of the array it returns.

\* A variant of Spread: the copy left out, the same array under a second name.
SpreadAliased(heap, ref) == [heap |-> heap, ref |-> ref]

\* [...a]: a new array with the elements of a.
Spread(heap, ref) == [heap |-> Append(heap, heap[ref]), ref |-> Len(heap) + 1]

\* a.filter(t => t.amount < 0) and a.filter(t => t.amount > 0): new arrays.
FilterIncome(heap, ref) ==
    [heap |-> Append(heap, SelectSeq(heap[ref], IsIncome)), ref |-> Len(heap) + 1]
FilterSpending(heap, ref) ==
    [heap |-> Append(heap, SelectSeq(heap[ref], IsSpending)), ref |-> Len(heap) + 1]

\* a.sort(by date): sorts the receiver in place.
SortByDate(heap, ref) ==
    [heap EXCEPT ![ref] = SortAscending(heap[ref], Dates(heap[ref]))]

\* detectPaymentPattern and detectFrequencyPattern: a copy of the argument is
\* sorted, when it has two elements or more.
HeapDetectPaymentPattern(heap, ref) ==
    IF Len(heap[ref]) < 2 THEN heap
    ELSE LET sorted == Spread(heap, ref)
         IN  SortByDate(sorted.heap, sorted.ref)

HeapDetectFrequencyPattern(heap, ref) ==
    IF Len(heap[ref]) < 2 THEN heap
    ELSE LET sorted == Spread(heap, ref)
         IN  SortByDate(sorted.heap, sorted.ref)

\* detectIncome: the filtered array is what detectPaymentPattern is given.
HeapDetectIncome(heap, ref) ==
    LET incomeTransactions == FilterIncome(heap, ref)
    IN  IF Len(incomeTransactions.heap[incomeTransactions.ref]) = 0
        THEN incomeTransactions
        ELSE [heap |-> HeapDetectPaymentPattern(incomeTransactions.heap,
                                                incomeTransactions.ref),
              ref |-> incomeTransactions.ref]

\* analyzeCategorySpending: the filtered array is read into new arrays, one
\* for each category; the array that is sorted holds the new category entries.
HeapAnalyzeCategorySpending(heap, ref) == FilterSpending(heap, ref).heap

\* calculateCashFlowHealth: income.incomeTransactions is read through map.
HeapCalculateCashFlowHealth(heap, ref) == heap

\* generateInsights: one filter of the transactions.
HeapGenerateInsights(heap, ref) == FilterSpending(heap, ref).heap

\* detectSubscriptionDrift: for each merchant a new array of its debits, a
\* sorted copy of it, and detectFrequencyPattern on the sorted copy.
RECURSIVE HeapAnalyzeMerchants(_, _, _)
HeapAnalyzeMerchants(heap, ref, keys) ==
    IF keys = <<>> THEN heap
    ELSE LET InGroup(t) == IsSpending(t) /\ normalizeMerchantName(t.name) = Head(keys)
             txns == [heap |-> Append(heap, SelectSeq(heap[ref], InGroup)),
                      ref |-> Len(heap) + 1]
             sorted == Spread(txns.heap, txns.ref)
             sortedHeap == SortByDate(sorted.heap, sorted.ref)
             pfc == sortedHeap[sorted.ref][1].personal_finance_category
             after == IF Len(txns.heap[txns.ref]) < 2 THEN txns.heap
                      ELSE IF isNonSubscriptionCategory(pfc) THEN sortedHeap
                      ELSE IF IsNonSubscriptionMerchant(Head(keys)) THEN sortedHeap
                      ELSE HeapDetectFrequencyPattern(sortedHeap, sorted.ref)
         IN  HeapAnalyzeMerchants(after, ref, Tail(keys))

HeapDetectSubscriptionDrift(heap, ref) ==
    IF Len(heap[ref]) = 0 THEN heap
    ELSE HeapAnalyzeMerchants(heap, ref,
                              MerchantKeys(SelectSeq(heap[ref], IsSpending), {}))

\* analyzeFinances: detectIncome, analyzeCategorySpending, a filter,
\* calculateCashFlowHealth on the income analysis and generateInsights.
HeapAnalyzeFinances(heap, ref) ==
    LET income == HeapDetectIncome(heap, ref)
        categories == HeapAnalyzeCategorySpending(income.heap, ref)
        spending == FilterSpending(categories, ref).heap
        scored == HeapCalculateCashFlowHealth(spending, income.ref)
    IN  HeapGenerateInsights(scored, ref)

-----------------------------------------------------------------------------
(* Specification of the core operations as seen by the arrays they are given *)

CoreOperations ==
    {"detectIncome", "analyzeCategorySpending", "calculateCashFlowHealth",
     "detectSubscriptionDrift", "generateInsights", "analyzeFinances",
     "detectPaymentPattern", "detectFrequencyPattern"}

\* The arrays the caller holds when it calls: the snapshot, and for the
\* scorer also the incomeTransactions of the income analysis it passes.
HeapBefore(op) ==
    IF op = "calculateCashFlowHealth" THEN FilterIncome(<<transactions>>, 1).heap
    ELSE <<transactions>>

HeapAfter(op, heap) ==
    CASE op = "detectIncome" -> HeapDetectIncome(heap, 1).heap
      [] op = "analyzeCategorySpending" -> HeapAnalyzeCategorySpending(heap, 1)
      [] op = "calculateCashFlowHealth" -> HeapCalculateCashFlowHealth(heap, 2)
      [] op = "detectSubscriptionDrift" -> HeapDetectSubscriptionDrift(heap, 1)
      [] op = "generateInsights" -> HeapGenerateInsights(heap, 1)
      [] op = "analyzeFinances" -> HeapAnalyzeFinances(heap, 1)
      [] op = "detectPaymentPattern" -> HeapDetectPaymentPattern(heap, 1)
      [] op = "detectFrequencyPattern" -> HeapDetectFrequencyPattern(heap, 1)

FramePool ==
    {Txn(30, -2000, Employer, Pfc("INCOME"), FALSE),
     Txn(0, -600, Employer, Pfc("INCOME"), FALSE),
     Txn(30, 15, Netflix, Pfc("ENTERTAINMENT"), FALSE),
     Txn(0, 15, Netflix, Pfc("ENTERTAINMENT"), FALSE),
     Txn(10, 500, Cafe, Pfc("DINING"), FALSE)}

InitFrame ==
    /\ transactions \in ListsOver(FramePool)
    /\ now = MinOf(Clock)
    /\ scorerIn = NotCalled
    /\ NothingCalled

\* A caller runs one operation; the snapshot it holds afterwards is the array
\* it passed, as the operation left it.
CallCoreOperation ==
    \E op \in CoreOperations :
        LET before == HeapBefore(op)
            after == HeapAfter(op, before)
        IN  /\ transactions' = after[1]
            /\ frame' = [called |-> TRUE, op |-> op, before |-> before,
                         after |-> SubSeq(after, 1, Len(before)),
                         arrays |-> Len(after)]
            /\ UNCHANGED <<accounts, now, analysis, prevAnalysis, subscriptions,
                           sanitized, scorerIn, health, prevHealth, paymentPattern,
                           frequencyPattern, incomeAnalysis, requests, locals,
                           session, response, categorySpending,
               insightsCall, periodSpending, stream>>

NextFrame == CallCoreOperation

SpecFrame == InitFrame /\ [][NextFrame]_vars

\* C13: no core operation changes its input: after the call the arrays the
\* caller passed, the transaction list first, hold the same elements in the
\* same order with the same field values as before (checked for the six
\* operations and for the two cadence helpers they call).
C13_InputsUnchanged ==
    frame.called =>
        /\ frame.after = frame.before
        /\ transactions = frame.before[1]

\* C13 happens: the operation allocated arrays of its own for a snapshot of
\* two transactions of one merchant given out of date order; the witness is
\* the case of analyzeFinances, which sorts such copies.
FrameSortedACopy(op) ==
    /\ frame.called
    /\ frame.op = op
    /\ frame.arrays >= 3
    /\ Len(transactions) >= 2
    /\ transactions[1].date > transactions[2].date
    /\ transactions[1].name = transactions[2].name

C13_Witness == FrameSortedACopy("analyzeFinances")

-----------------------------------------------------------------------------
(* Specification of concurrent analysis requests *)

\* The requests in flight.
RequestIds == {"r1", "r2"}

\* A variant of ScopeOf: one scope for every call, as if the local values
\* were declared at module level.
ScopeShared(r) == "r1"

\* The scope holding the local constants of the call made for request r: a
\* call of a function has a scope of its own.
ScopeOf(r) == r

ConcurrentPool ==
    {Txn(0, -2000, Employer, Pfc("INCOME"), FALSE),
     Txn(10, 1600, Netflix, Pfc("ENTERTAINMENT"), FALSE)}

\* The steps of a request, in the order of the handler.
Steps ==
    <<"detectIncome", "analyzeCategorySpending", "calculateCashFlowHealth",
      "generateInsights", "detectSubscriptionDrift", "respond">>
StepAfter(pc) == Steps[(CHOOSE i \in 1..Len(Steps) : Steps[i] = pc) + 1]

NoLocals ==
    [income |-> NotCalled, categories |-> NotCalled, spendingTotal |-> NotCalled,
     currentBalance |-> NotCalled, cashFlowHealth |-> NotCalled,
     analysis |-> NotCalled]

InitConcurrent ==
    /\ requests \in [RequestIds ->
           {[pc |-> Steps[1], transactions |-> l, accounts |-> <<>>,
             response |-> NotCalled] : l \in ListsOver(ConcurrentPool)}]
    /\ locals = [r \in RequestIds |-> NoLocals]
    /\ transactions = <<>>
    /\ now = MinOf(Clock)
    /\ scorerIn = NotCalled
    /\ accounts = <<>>
    /\ analysis = NotCalled
    /\ prevAnalysis = NotCalled
    /\ subscriptions = NotCalled
    /\ sanitized = NotCalled
    /\ health = NotCalled
    /\ prevHealth = NotCalled
    /\ paymentPattern = NotCalled
    /\ frequencyPattern = NotCalled
    /\ incomeAnalysis = NotCalled
    /\ frame = NotCalled
    /\ session = <<>>
    /\ response = NotCalled
    /\ categorySpending = NotCalled
    /\ insightsCall = NotCalled
    /\ periodSpending = NotCalled
    /\ stream = NotCalled

\* The value analyzeFinances returns, from the local constants of the call.
FinancialAnalysis(txns, loc) ==
    LET dayRange == IF Len(txns) > 0 THEN txns[1].date - txns[Len(txns)].date ELSE 1
    IN  [income |-> loc.income,
         spending |-> [total |-> loc.spendingTotal,
                       byCategory |-> loc.categories,
                       topCategories |-> SliceTo(loc.categories, 7),
                       dailyAverage |-> Frac(loc.spendingTotal, Max(1, dayRange))],
         balance |-> [current |-> loc.currentBalance, trend |-> "stable"],
         cashFlowHealth |-> loc.cashFlowHealth,
         insights |-> generateInsights(txns, loc.income, loc.categories,
                                       loc.currentBalance, now),
         savingsRate |-> IF loc.income.totalIncome > 0
                         THEN FracMul(Frac(loc.income.totalIncome - loc.spendingTotal,
                                           loc.income.totalIncome), FracInt(100))
                         ELSE FracInt(0)]

\* What a step of the request adds to the local constants of its call.
LocalsAfter(pc, txns, accts, loc) ==
    CASE pc = "detectIncome" ->
             [loc EXCEPT !.income = detectIncome(txns)]
      [] pc = "analyzeCategorySpending" ->
             LET spendingTotal == SumSeq(Amounts(SelectSeq(txns, IsSpending)))
             IN  [loc EXCEPT !.categories = analyzeCategorySpending(txns),
                             !.spendingTotal = spendingTotal,
                             !.currentBalance =
                                 CurrentBalance(loc.income, spendingTotal, accts)]
      [] pc = "calculateCashFlowHealth" ->
             [loc EXCEPT !.cashFlowHealth =
                 calculateCashFlowHealth(loc.income, loc.spendingTotal,
                                         loc.currentBalance)]
      [] pc = "generateInsights" ->
             [loc EXCEPT !.analysis = FinancialAnalysis(txns, loc)]
      [] OTHER -> loc

\* One request takes its next step; the steps of the requests interleave.
RequestStep ==
    \E r \in RequestIds :
        LET req == requests[r]
            loc == locals[ScopeOf(r)]
        IN  /\ req.pc # "respond"
            /\ locals' = [locals EXCEPT ![ScopeOf(r)] =
                              LocalsAfter(req.pc, req.transactions, req.accounts, loc)]
            /\ requests' = [requests EXCEPT
                   ![r].pc = StepAfter(req.pc),
                   ![r].response =
                       IF req.pc = "detectSubscriptionDrift"
                       THEN [called |-> TRUE,
                             analysis |-> loc.analysis,
                             subscriptions |-> detectSubscriptionDrift(req.transactions)]
                       ELSE req.response]
            /\ UNCHANGED <<transactions, accounts, now, analysis, prevAnalysis,
                           subscriptions, sanitized, scorerIn, health, prevHealth,
                           paymentPattern, frequencyPattern, incomeAnalysis, frame,
                           session, response, categorySpending,
               insightsCall, periodSpending, stream>>

NextConcurrent == RequestStep

SpecConcurrent == InitConcurrent /\ [][NextConcurrent]_vars

\* C14: whatever the interleaving of the steps of the requests, each on its
\* own snapshot, every request answers what it would answer when run alone.
C14_ResultAsWhenAlone ==
    \A r \in RequestIds :
        requests[r].response.called =>
            /\ requests[r].response.analysis
                   = analyzeFinances(requests[r].transactions, requests[r].accounts, now)
            /\ requests[r].response.subscriptions
                   = detectSubscriptionDrift(requests[r].transactions)

\* C14 happens: two requests on different snapshots both answered, the second
\* having taken steps while the first was between its own.
C14_Witness ==
    /\ \A r \in RequestIds : requests[r].response.called
    /\ requests["r1"].transactions # requests["r2"].transactions
    /\ Len(requests["r1"].transactions) = 2
    /\ requests["r1"].response.analysis # requests["r2"].response.analysis

-----------------------------------------------------------------------------
(* src/lib/session.ts and the route handlers: the session and its guards *)

\* The most banks a session connects.
MaxBanks == 2

\* The responses the log of a browser keeps.
LogWindow == 3

\* session.field = value
With(s, field, value) ==
    [f \in DOMAIN s \cup {field} |-> IF f = field THEN value ELSE s[f]]

\* A variant of HasAccessToken: the guard left out.
HasAccessTokenUnchecked(s) == TRUE

\* !session.plaidAccessToken is false: the field is set (to a token, which is
\* a non-empty string).
HasAccessToken(s) == "plaidAccessToken" \in DOMAIN s

\* session.plaidAccessTokens || (session.plaidAccessToken ? [session.plaidAccessToken] : [])
AccessTokens(s) ==
    IF "plaidAccessTokens" \in DOMAIN s THEN s.plaidAccessTokens
    ELSE IF "plaidAccessToken" \in DOMAIN s THEN <<s.plaidAccessToken>>
    ELSE <<>>

\* The calls a handler makes to the banking provider with one token.
TransactionsGet(token) == [call |-> "transactionsGet", access_token |-> token]
AccountsGet(token) == [call |-> "accountsGet", access_token |-> token]

RECURSIVE FetchAll(_)
FetchAll(tokens) ==
    IF tokens = <<>> THEN <<>>
    ELSE <<TransactionsGet(Head(tokens)), AccountsGet(Head(tokens))>>
             \o FetchAll(Tail(tokens))

\* What the provider does with the calls of one handler.
ProviderOutcomes == {"ok", "error", "ITEM_LOGIN_REQUIRED"}

\* The response of a handler, logged after the last responses of the browser.
Respond(endpoint, status, providerCalls) ==
    LET entry == [endpoint |-> endpoint, status |-> status,
                  providerCalls |-> providerCalls]
        log == IF response.called THEN Append(response.log, entry) ELSE <<entry>>
    IN  [called |-> TRUE, endpoint |-> endpoint, status |-> status,
         providerCalls |-> providerCalls,
         log |-> IF Len(log) > LogWindow THEN Tail(log) ELSE log]

\* session.field, undefined when the field is not set.
Get(s, field) == IF field \in DOMAIN s THEN s[field] ELSE Undefined

\* The variables the route handlers leave alone.
coreVars == <<transactions, accounts, now, analysis, prevAnalysis, subscriptions,
              sanitized, scorerIn, health, prevHealth, paymentPattern,
              frequencyPattern, incomeAnalysis, frame, requests, locals,
              categorySpending,
               insightsCall, periodSpending, stream>>

coreVarsButStream == <<transactions, accounts, now, analysis, prevAnalysis,
                       subscriptions, sanitized, scorerIn, health, prevHealth,
                       paymentPattern, frequencyPattern, incomeAnalysis, frame,
                       requests, locals, categorySpending, insightsCall,
                       periodSpending>>

DataEndpoints == {"comprehensive", "stream", "accounts", "transactions"}

\* GET /api/analysis/comprehensive
GetComprehensive ==
    \E outcome \in ProviderOutcomes :
        LET accessTokens == AccessTokens(session)
        IN  /\ response' =
                   IF Len(accessTokens) = 0
                       THEN Respond("comprehensive", 401, <<>>)
                   ELSE IF outcome = "ok"
                       THEN Respond("comprehensive", 200, FetchAll(accessTokens))
                   ELSE Respond("comprehensive", 500, FetchAll(<<accessTokens[1]>>))
            /\ UNCHANGED <<session, coreVars>>

\* GET of the insight stream
GetStream ==
    \E outcome \in ProviderOutcomes :
        LET token == Get(session, "plaidAccessToken")
        IN  /\ response' =
                   IF ~HasAccessToken(session) THEN Respond("stream", 401, <<>>)
                   ELSE IF outcome = "ok"
                       THEN Respond("stream", 200, FetchAll(<<token>>))
                   ELSE Respond("stream", 500, FetchAll(<<token>>))
            /\ UNCHANGED <<session, coreVars>>

\* GET /api/plaid/accounts
GetAccounts ==
    \E outcome \in ProviderOutcomes :
        LET token == Get(session, "plaidAccessToken")
        IN  /\ response' =
                   IF ~HasAccessToken(session) THEN Respond("accounts", 401, <<>>)
                   ELSE IF outcome = "ok"
                       THEN Respond("accounts", 200, <<AccountsGet(token)>>)
                   ELSE Respond("accounts", 500, <<AccountsGet(token)>>)
            /\ UNCHANGED <<session, coreVars>>

\* GET of the transactions
GetTransactions ==
    \E outcome \in ProviderOutcomes :
        LET token == Get(session, "plaidAccessToken")
        IN  /\ response' =
                   IF ~HasAccessToken(session) THEN Respond("transactions", 401, <<>>)
                   ELSE IF outcome = "ok"
                       THEN Respond("transactions", 200, FetchAll(<<token>>))
                   ELSE IF outcome = "ITEM_LOGIN_REQUIRED"
                       THEN Respond("transactions", 401, <<TransactionsGet(token)>>)
                   ELSE Respond("transactions", 500, <<TransactionsGet(token)>>)
            /\ UNCHANGED <<session, coreVars>>

\* POST of the token exchange: the session after a successful exchange.
\* A variant of SessionAfterExchange: the single token and item id are set at
\* every exchange.
SessionAfterExchangeOverwriting(s, accessToken, itemId) ==
    LET fresh == IF "plaidAccessTokens" \notin DOMAIN s \/ "plaidItemIds" \notin DOMAIN s
                 THEN With(With(s, "plaidAccessTokens", <<>>), "plaidItemIds", <<>>)
                 ELSE s
        pushed == With(With(fresh, "plaidAccessTokens",
                            Append(fresh.plaidAccessTokens, accessToken)),
                       "plaidItemIds", Append(fresh.plaidItemIds, itemId))
    IN  With(With(pushed, "plaidAccessToken", accessToken), "plaidItemId", itemId)

SessionAfterExchange(s, accessToken, itemId) ==
    LET fresh == IF "plaidAccessTokens" \notin DOMAIN s \/ "plaidItemIds" \notin DOMAIN s
                 THEN With(With(s, "plaidAccessTokens", <<>>), "plaidItemIds", <<>>)
                 ELSE s
        pushed == With(With(fresh, "plaidAccessTokens",
                            Append(fresh.plaidAccessTokens, accessToken)),
                       "plaidItemIds", Append(fresh.plaidItemIds, itemId))
    IN  IF ~HasAccessToken(pushed)
        THEN With(With(pushed, "plaidAccessToken", accessToken), "plaidItemId", itemId)
        ELSE pushed

PostExchange ==
    \E hasPublicToken \in BOOLEAN, outcome \in ProviderOutcomes :
        LET banks == Len(AccessTokens(session))
            accessToken == <<"access-sandbox", banks + 1>>
            itemId == <<"item", banks + 1>>
            exchange == [call |-> "itemPublicTokenExchange"]
        IN  /\ hasPublicToken /\ outcome = "ok" => banks < MaxBanks
            /\ response' =
                   IF ~hasPublicToken THEN Respond("exchange", 400, <<>>)
                   ELSE IF outcome = "ok"
                       THEN Respond("exchange", 200, <<exchange, AccountsGet(accessToken)>>)
                   ELSE Respond("exchange", 500, <<exchange>>)
            /\ session' = IF hasPublicToken /\ outcome = "ok"
                          THEN SessionAfterExchange(session, accessToken, itemId)
                          ELSE session
            /\ UNCHANGED coreVars

\* POST /api/disconnect: clearSession destroys the session.
PostDisconnect ==
    /\ session' = <<>>
    /\ response' = Respond("disconnect", 200, <<>>)
    /\ UNCHANGED coreVars

\* POST of the user profile
PostProfile ==
    /\ session' = With(session, "userProfile", [onboardingComplete |-> TRUE])
    /\ response' = Respond("profile", 200, <<>>)
    /\ UNCHANGED coreVars

\* A fresh browser: no cookie, no response.
InitSession ==
    /\ transactions = <<>>
    /\ now = MinOf(Clock)
    /\ scorerIn = NotCalled
    /\ NothingCalled

NextSession ==
    \/ GetComprehensive
    \/ GetStream
    \/ GetAccounts
    \/ GetTransactions
    \/ PostExchange
    \/ PostDisconnect
    \/ PostProfile

SpecSession == InitSession /\ [][NextSession]_vars

\* The session holds no access token: neither the single one nor the list.
HoldsNoAccessToken ==
    /\ "plaidAccessToken" \notin DOMAIN session
    /\ "plaidAccessTokens" \in DOMAIN session => session.plaidAccessTokens = <<>>

\* C15: a data endpoint (comprehensive analysis, insight stream, accounts,
\* transactions) asked while the session holds no access token answers 401
\* and calls no banking provider, from the fresh session on and after every
\* disconnect.
C15_NoTokenNoData ==
    (/\ response.called
     /\ response.endpoint \in DataEndpoints
     /\ HoldsNoAccessToken)
        => /\ response.status = 401
           /\ response.providerCalls = <<>>

\* C15 happens: after a successful exchange and a disconnect, a data endpoint
\* was asked and answered 401 without calling the provider.
C15_Witness ==
    /\ response.called
    /\ Len(response.log) = 3
    /\ response.log[1].endpoint = "exchange" /\ response.log[1].status = 200
    /\ response.log[2].endpoint = "disconnect"
    /\ response.log[3].endpoint = "comprehensive" /\ response.log[3].status = 401
    /\ response.providerCalls = <<>>
    /\ HoldsNoAccessToken

-----------------------------------------------------------------------------
(* Properties of the score of a balance that is not negative *)

\* The score the claim gives, on integers. Monthly spending is
\* spending / max(1, span / 30) = 30 * spending / max(30, span), span being
\* the days between the first and the last income date (0 with no or one
\* income transaction). A quotient by a monthly spending of 0 is as the
\* arithmetic of the numbers has it: above every band when its numerator is
\* positive, in no band when its numerator is 0.
IncomeSpan(income) ==
    IF Len(income.incomeTransactions) < 2 THEN 0
    ELSE LET dates == Range(Dates(income.incomeTransactions))
         IN  MaxOf(dates) - MinOf(dates)

\* income.averageMonthly / monthly spending >= p / q
ClaimedRatioAtLeast(income, spending, p, q) ==
    IF spending = 0 THEN income.averageMonthly.n > 0
    ELSE income.averageMonthly.n * q * Max(30, IncomeSpan(income))
             >= p * income.averageMonthly.d * spending * 30

\* balance / monthly spending >= p / q
ClaimedBalanceAtLeast(income, spending, balance, p, q) ==
    IF spending = 0 THEN balance > 0
    ELSE balance * q * Max(30, IncomeSpan(income)) >= p * spending * 30

ClaimedScore(income, spending, balance) ==
    LET R == IF ClaimedRatioAtLeast(income, spending, 3, 2) THEN 40
             ELSE IF ClaimedRatioAtLeast(income, spending, 6, 5) THEN 30
             ELSE IF ClaimedRatioAtLeast(income, spending, 1, 1) THEN 20
             ELSE IF ClaimedRatioAtLeast(income, spending, 4, 5) THEN 10
             ELSE 0
        B == IF ClaimedBalanceAtLeast(income, spending, balance, 2, 1) THEN 30
             ELSE IF ClaimedBalanceAtLeast(income, spending, balance, 1, 1) THEN 20
             ELSE IF ClaimedBalanceAtLeast(income, spending, balance, 1, 2) THEN 10
             ELSE 0
        S == IF ~income.isVariable THEN 20
             ELSE IF FracLT(income.variabilitySq, Frac(9, 100)) THEN 15
             ELSE IF FracLT(income.variabilitySq, Frac(1, 4)) THEN 10
             ELSE 5
    IN  Min(100, 50 + R + B + S)

\* C16: when balance >= 0 the score is min(100, 50 + R + B + S), R being
\* 40/30/20/10/0 for an income-to-spending ratio >= 1.5 / 1.2 / 1.0 / 0.8 /
\* below, B 30/20/10/0 for balance over monthly spending >= 2 / 1 / 0.5 /
\* below, S 20 for an income that is not variable, else 15 / 10 / 5 for a
\* variability < 0.3 / < 0.5 / above; the status is healthy iff score >= 75,
\* warning iff 50 <= score < 75, critical otherwise.
C16_ScoreOfNonNegativeBalance ==
    (health.called /\ health.balance >= 0) =>
        /\ health.result.score
               = ClaimedScore(scorerIn.income, scorerIn.spending, health.balance)
        /\ health.result.status = "healthy" <=> health.result.score >= 75
        /\ health.result.status = "warning" <=>
               (50 <= health.result.score /\ health.result.score < 75)
        /\ health.result.status = "critical" <=> health.result.score < 50

\* C16 happens: an income of 2000 and 1200 over 45 days (variability 0.25)
\* with spending 5200 and balance 9000 scored 50 + 0 + 30 + 15 = 95.
C16_Witness ==
    /\ health.called
    /\ health.balance = 9000
    /\ scorerIn.spending = 5200
    /\ scorerIn.income.isVariable
    /\ FracLT(scorerIn.income.variabilitySq, Frac(9, 100))
    /\ IncomeSpan(scorerIn.income) = 45
    /\ health.result.score = 95
    /\ health.result.status = "healthy"

\* C17: with balance >= 0 the score is at least 55 and the status is healthy
\* or warning; the status is critical if and only if balance < 0.
C17_CriticalIffNegative ==
    health.called =>
        /\ health.balance >= 0 => health.result.score >= 55
        /\ health.result.status = "critical" <=> health.balance < 0

\* C17 happens: the lowest score of a balance that is not negative, 55, for
\* a highly variable income outspent with nothing left.
C17_Witness ==
    /\ health.called
    /\ health.balance = 0
    /\ scorerIn.spending = 5200
    /\ ~FracLT(scorerIn.income.variabilitySq, Frac(1, 4))
    /\ health.result.score = 55
    /\ health.result.status = "warning"

-----------------------------------------------------------------------------
(* Specification of the income analysis, called on its own *)

IncomePool ==
    {Txn(40, -2000, Employer, Pfc("INCOME"), FALSE),
     Txn(10, -2000, Employer, Pfc("INCOME"), FALSE),
     Txn(0, -900, Employer, Undefined, FALSE),
     Txn(100, -600, Employer, Undefined, FALSE),
     Txn(55, -1, Cafe, Pfc("TRANSFER_IN"), FALSE),
     Txn(20, 500, Cafe, Pfc("DINING"), FALSE),
     Txn(120, 0, Cafe, Undefined, FALSE)}

InitIncome ==
    /\ transactions \in ListsOver(IncomePool)
    /\ now = MinOf(Clock)
    /\ scorerIn = NotCalled
    /\ NothingCalled

DetectIncome ==
    /\ incomeAnalysis' = [called |-> TRUE, result |-> detectIncome(transactions)]
    /\ UNCHANGED <<transactions, accounts, now, analysis, prevAnalysis, subscriptions,
                   sanitized, scorerIn, health, prevHealth, paymentPattern,
                   frequencyPattern, frame, requests, locals, session, response, categorySpending,
               insightsCall, periodSpending, stream>>

NextIncome == DetectIncome

SpecIncome == InitIncome /\ [][NextIncome]_vars

\* The days between the earliest and the latest income date of the snapshot.
IncomeDayRange ==
    MaxOf({transactions[i].date : i \in IncomeIndices})
        - MinOf({transactions[i].date : i \in IncomeIndices})

\* C18: for a non-empty set of income transactions averageMonthly is
\* totalIncome / max(1, dayRange / 30), that is 30 * totalIncome / max(30,
\* dayRange); so averageMonthly <= totalIncome, with equality for a single
\* income transaction and for income dates that span at most 30 days.
C18_AverageMonthly ==
    (incomeAnalysis.called /\ IncomeIndices # {}) =>
        LET income == incomeAnalysis.result
        IN  /\ income.totalIncome = SumAbsAmounts(IncomeIndices)
            /\ income.averageMonthly.d > 0
            /\ income.averageMonthly.n * Max(30, IncomeDayRange)
                   = 30 * income.totalIncome * income.averageMonthly.d
            /\ income.averageMonthly.n <= income.totalIncome * income.averageMonthly.d
            /\ (Cardinality(IncomeIndices) = 1 \/ IncomeDayRange <= 30) =>
                   income.averageMonthly = FracInt(income.totalIncome)

\* C18 happens: income of 2000 and 600 received 90 days apart, 2600 in all,
\* averaged 2600 / 3 a month.
C18_Witness ==
    /\ incomeAnalysis.called
    /\ Cardinality(IncomeIndices) = 2
    /\ IncomeDayRange = 90
    /\ incomeAnalysis.result.totalIncome = 2600
    /\ incomeAnalysis.result.averageMonthly = Frac(2600, 3)

-----------------------------------------------------------------------------
(* Properties of the most recent paycheck *)

\* The place of the first income transaction of the snapshot, in input order.
FirstIncome == CHOOSE i \in IncomeIndices : \A j \in IncomeIndices : i <= j

CashFlowInsights ==
    {k \in 1..Len(analysis.result.insights) :
        analysis.result.insights[k].type = "cash_flow"}

-----------------------------------------------------------------------------
(* The double-precision numbers of the percentages *)

\* A natural number as its binary digits, the lowest first and the highest a
\* 1; and a positive double as [n, s], the 53 digits n of its significand and
\* the scale s: the number n * 2^s. Zero has no digits. The numbers of the
\* language are of the binary64 format, whose significand has 53 digits.
Precision == 53

RECURSIVE BitsOf(_)
BitsOf(k) == IF k = 0 THEN <<>> ELSE <<k % 2>> \o BitsOf(k \div 2)

RECURSIVE Strip(_)
Strip(a) ==
    IF a = <<>> THEN <<>>
    ELSE IF a[Len(a)] = 0 THEN Strip(SubSeq(a, 1, Len(a) - 1))
    ELSE a

ShiftLeft(a, k) == IF a = <<>> THEN <<>> ELSE [i \in 1..k |-> 0] \o a

RECURSIVE BitsAdd(_, _, _)
BitsAdd(a, b, carry) ==
    IF a = <<>> /\ b = <<>> THEN (IF carry = 1 THEN <<1>> ELSE <<>>)
    ELSE LET x == IF a = <<>> THEN 0 ELSE Head(a)
             y == IF b = <<>> THEN 0 ELSE Head(b)
             sum == x + y + carry
         IN  <<sum % 2>> \o BitsAdd(IF a = <<>> THEN <<>> ELSE Tail(a),
                                    IF b = <<>> THEN <<>> ELSE Tail(b),
                                    sum \div 2)

\* a <= b, for digits without leading zeros
RECURSIVE BitsLE(_, _)
BitsLE(a, b) ==
    IF Len(a) # Len(b) THEN Len(a) < Len(b)
    ELSE IF a = <<>> THEN TRUE
    ELSE IF a[Len(a)] # b[Len(b)] THEN a[Len(a)] < b[Len(b)]
    ELSE BitsLE(Strip(SubSeq(a, 1, Len(a) - 1)),
                Strip(SubSeq(b, 1, Len(b) - 1)))

\* The double nearest to n * 2^s, a tie going to the even significand.
RoundToDouble(n, s) ==
    LET len == Len(n)
        dropped == len - Precision
        kept == SubSeq(n, dropped + 1, len)
        guard == n[dropped]
        sticky == \E i \in 1..(dropped - 1) : n[i] = 1
        up == guard = 1 /\ (sticky \/ kept[1] = 1)
        rounded == IF up THEN BitsAdd(kept, <<1>>, 0) ELSE kept
    IN  IF n = <<>> THEN [n |-> <<>>, s |-> 0]
        ELSE IF len <= Precision
            THEN [n |-> ShiftLeft(n, Precision - len), s |-> s - (Precision - len)]
        ELSE IF Len(rounded) > Precision
            THEN [n |-> Tail(rounded), s |-> s + dropped + 1]
        ELSE [n |-> rounded, s |-> s + dropped]

DoubleOf(k) == RoundToDouble(BitsOf(k), 0)

\* x / g for whole x >= 0 and g > 0: the quotient's digits by long division,
\* two more than the significand holds and a last one for a remainder left.
RECURSIVE DivDigits(_, _, _, _)
DivDigits(r, g, digits, k) ==
    IF Len(digits) >= Precision + 2
        THEN [n |-> <<IF r # 0 THEN 1 ELSE 0>> \o digits, s |-> 0 - (k + 1)]
    ELSE LET bit == IF 2 * r >= g THEN 1 ELSE 0
         IN  DivDigits(2 * r - bit * g, g, Strip(<<bit>> \o digits), k + 1)

Div64(x, g) ==
    LET q == DivDigits(x % g, g, BitsOf(x \div g), 0)
    IN  IF x = 0 THEN DoubleOf(0) ELSE RoundToDouble(q.n, q.s)

\* f * 100 = f * 64 + f * 32 + f * 4
Times100(f) ==
    RoundToDouble(BitsAdd(ShiftLeft(f.n, 6),
                          BitsAdd(ShiftLeft(f.n, 5), ShiftLeft(f.n, 2), 0), 0),
                  f.s)

\* f + g and f <= g in the real numbers, on doubles and on sums of them
ExactAdd(f, g) ==
    LET lo == IF f.s < g.s THEN f.s ELSE g.s
    IN  [n |-> BitsAdd(ShiftLeft(f.n, f.s - lo), ShiftLeft(g.n, g.s - lo), 0),
         s |-> lo]

ExactLE(f, g) ==
    LET lo == IF f.s < g.s THEN f.s ELSE g.s
    IN  BitsLE(ShiftLeft(f.n, f.s - lo), ShiftLeft(g.n, g.s - lo))

\* f + g, as the doubles of the code compute it
Add64(f, g) == LET sum == ExactAdd(f, g) IN RoundToDouble(sum.n, sum.s)

\* (data.total / totalSpending) * 100, as the doubles of the code compute it
Percentage64(total, totalSpending) == Times100(Div64(total, totalSpending))

\* The percentages of the categories analyzeCategorySpending returns, in the
\* order of its result, as the doubles it stores.
Percentages64(txns) ==
    LET categories == analyzeCategorySpending(txns)
        totalSpending == SumSeq(Amounts(SelectSeq(txns, IsSpending)))
    IN  [k \in 1..Len(categories) |->
            IF totalSpending > 0
            THEN Percentage64(categories[k].total, totalSpending)
            ELSE DoubleOf(0)]

-----------------------------------------------------------------------------
(* Specification of the category analysis, called on its own *)

CategoryPool ==
    {Txn(10, 7, Netflix, Pfc("ENTERTAINMENT"), FALSE),
     Txn(12, 7, Cafe, Pfc("DINING"), FALSE),
     Txn(15, 7, Cafe, Undefined, FALSE),
     Txn(20, 500, Cafe, Pfc("DINING"), FALSE),
     Txn(3, 15, Cafe, Pfc("LOAN_DISBURSEMENTS"), FALSE),
     Txn(5, 0, Cafe, Pfc("DINING"), FALSE),
     Txn(1, -2000, Employer, Pfc("INCOME"), FALSE)}

InitCategories ==
    /\ transactions \in ListsOver(CategoryPool)
    /\ now = MinOf(Clock)
    /\ scorerIn = NotCalled
    /\ NothingCalled

AnalyzeCategorySpending ==
    /\ categorySpending' = [called |-> TRUE,
                            result |-> analyzeCategorySpending(transactions),
                            doubles |-> Percentages64(transactions)]
    /\ UNCHANGED <<transactions, accounts, now, analysis, prevAnalysis, subscriptions,
                   sanitized, scorerIn, health, prevHealth, paymentPattern,
                   frequencyPattern, incomeAnalysis, frame, requests, locals,
                   session, response, insightsCall, periodSpending, stream>>

NextCategories == AnalyzeCategorySpending

SpecCategories == InitCategories /\ [][NextCategories]_vars

-----------------------------------------------------------------------------
(* Properties of the category analysis *)

FracAdd(x, y) == Frac(x.n * y.d + y.n * x.d, x.d * y.d)

RECURSIVE SumOfTotals(_)
SumOfTotals(categories) ==
    IF categories = <<>> THEN 0
    ELSE Head(categories).total + SumOfTotals(Tail(categories))

RECURSIVE SumOfCounts(_)
SumOfCounts(categories) ==
    IF categories = <<>> THEN 0
    ELSE Head(categories).count + SumOfCounts(Tail(categories))

\* The sum of the percentages in the real numbers
RECURSIVE SumOfPercentages(_)
SumOfPercentages(categories) ==
    IF categories = <<>> THEN FracInt(0)
    ELSE FracAdd(Head(categories).percentage, SumOfPercentages(Tail(categories)))

\* The sum of the stored percentages, added up one after the other as doubles
RECURSIVE SumOfDoubles(_)
SumOfDoubles(doubles) ==
    IF doubles = <<>> THEN DoubleOf(0)
    ELSE Add64(SumOfDoubles(SubSeq(doubles, 1, Len(doubles) - 1)),
               doubles[Len(doubles)])

\* |f - 100| <= 2^-40
RoundingOf100 == [n |-> <<1>>, s |-> 0 - 40]
NearlyOneHundred(f) ==
    /\ ExactLE(DoubleOf(100), ExactAdd(f, RoundingOf100))
    /\ ExactLE(f, ExactAdd(DoubleOf(100), RoundingOf100))

GrandTotal == SumSeq(Amounts(GroupList(SpendingIndices)))

\* The places of the list that a category holds
MembersOf(c) == {i \in Indices : transactions[i] \in Range(c.transactions)}

\* The grouping, and the figures of every group and of all groups together,
\* the sum of the percentages apart.
CategoryGroups ==
    LET categories == categorySpending.result
    IN  /\ \A i \in SpendingIndices :
            /\ Cardinality({k \in DOMAIN categories : i \in MembersOf(categories[k])}) = 1
            /\ \E k \in DOMAIN categories :
                /\ i \in MembersOf(categories[k])
                /\ categories[k].category = Category(transactions[i])
            /\ transactions[i].personal_finance_category = Undefined =>
                \E k \in DOMAIN categories :
                    /\ i \in MembersOf(categories[k])
                    /\ categories[k].category = "Other"
        /\ \A i \in Indices \ SpendingIndices :
            \A k \in DOMAIN categories : i \notin MembersOf(categories[k])
        /\ \A k \in DOMAIN categories :
            LET c == categories[k]
            IN  /\ c.transactions = GroupList(MembersOf(c))
                /\ c.total = SumSeq(Amounts(c.transactions))
                /\ c.count = Len(c.transactions)
                /\ c.count = Cardinality(MembersOf(c))
                /\ c.average = Frac(c.total, c.count)
                /\ c.percentage = Frac(100 * c.total, GrandTotal)
        /\ SumOfTotals(categories) = GrandTotal
        /\ SumOfCounts(categories) = Cardinality(SpendingIndices)

\* C20, as the specification states it: the grouping and the figures hold, and
\* whenever there is any spending the percentages of the result sum to 100.
C20_PercentagesSumTo100 ==
    categorySpending.called =>
        /\ CategoryGroups
        /\ GrandTotal > 0 =>
            SumOfDoubles(categorySpending.doubles) = DoubleOf(100)

\* C20, amended: every positive-amount transaction is in exactly one category
\* group, that of the friendly label of its primary code (Other when it has no
\* classification), and no other transaction is in any group; a group's total
\* is the sum of its members' amounts, its count their number, its average
\* total / count and its percentage total / grand total x 100; the totals sum
\* to the grand spending total and the counts to the number of positive-amount
\* transactions; whenever there is any spending the percentages sum to 100 in
\* the real numbers, and the doubles stored for them to 100 up to rounding.
C20_CategoryGroups ==
    categorySpending.called =>
        /\ CategoryGroups
        /\ GrandTotal > 0 =>
            /\ SumOfPercentages(categorySpending.result) = FracInt(100)
            /\ NearlyOneHundred(SumOfDoubles(categorySpending.doubles))

\* Three categories of seven dollars each, one of them of a transaction with
\* no classification: a third of the spending each, and the three stored
\* percentages add up to the double just below 100.
C20_Witness ==
    /\ categorySpending.called
    /\ Len(categorySpending.result) = 3
    /\ \A k \in 1..3 : categorySpending.result[k].total = 7
    /\ \E k \in 1..3 : categorySpending.result[k].category = "Other"
    /\ SumOfPercentages(categorySpending.result) = FracInt(100)
    /\ SumOfDoubles(categorySpending.doubles) # DoubleOf(100)
    /\ NearlyOneHundred(SumOfDoubles(categorySpending.doubles))

\* The place in the input of the first transaction of a category
FirstPlace(c) == MinOf(MembersOf(c))

\* C21: the categories analyzeCategorySpending returns are in non-increasing
\* order of total, and of two categories with equal totals the one whose first
\* transaction comes earlier in the input comes first.
C21_SortedByTotalThenFirstSeen ==
    categorySpending.called =>
        LET categories == categorySpending.result
        IN  \A k, l \in DOMAIN categories :
                k < l =>
                    \/ categories[k].total > categories[l].total
                    \/ /\ categories[k].total = categories[l].total
                       /\ FirstPlace(categories[k]) < FirstPlace(categories[l])

\* A category of 500 given between two categories of 7 each: it comes first,
\* and the two of 7 follow in the order of the input.
C21_Witness ==
    /\ categorySpending.called
    /\ Len(transactions) = 3
    /\ Amounts(transactions) = <<7, 500, 7>>
    /\ Len(categorySpending.result) = 3
    /\ categorySpending.result[1].category = Category(transactions[2])
    /\ categorySpending.result[2].category = Category(transactions[1])
    /\ categorySpending.result[3].category = Category(transactions[3])

-----------------------------------------------------------------------------
(* Properties of the subscription filter *)

\* The sets of the claim: the categories that are never subscriptions, and
\* entertainment, recurring services, utilities and rent.
ExclusionSet ==
    {"FOOD_RETAIL", "FOOD_AND_DRINK", "DINING", "TRANSPORTATION",
     "GENERAL_MERCHANDISE", "TRAVEL", "MEDICAL", "PERSONAL_CARE"}
InclusionSet == {"ENTERTAINMENT", "GENERAL_SERVICES", "RENT_AND_UTILITIES"}

\* The conditions of the claim on the group of one merchant key
KeepsGroup(key) ==
    LET G == Group(key)
        members == GroupList(G)
        earliest == Earliest(G)
        cadence == detectFrequencyPattern(members).frequency
        stats == calculateStatistics(Amounts(members))
    IN  /\ Cardinality(G) >= 2
        /\ PrimaryOf(earliest) \notin ExclusionSet
        /\ ~IsNonSubscriptionMerchant(key)
        /\ cadence # "irregular"
        /\ \/ cadence \in {"monthly", "annual"}
           \/ transactions[earliest].recurring
           \/ PrimaryOf(earliest) \in InclusionSet
        \* (stdDev / mean x 100)^2 <= 30^2
        /\ FracLE(FracMul(FracDiv(stats.variance, FracMul(stats.mean, stats.mean)),
                          FracInt(10000)),
                  FracInt(900))

-----------------------------------------------------------------------------
(* Specification of the insight rules, called on their own *)

InsightPool ==
    {Txn(0, -2000, Employer, Pfc("INCOME"), FALSE),
     Txn(28, -2000, Employer, Pfc("INCOME"), FALSE),
     Txn(33, -600, Employer, Undefined, FALSE),
     Txn(10, 300, Cafe, Pfc("DINING"), FALSE),
     Txn(20, 700, Netflix, Pfc("ENTERTAINMENT"), FALSE),
     Txn(15, 1500, Cafe, Undefined, FALSE)}

Reverse(s) == [k \in 1..Len(s) |-> s[Len(s) + 1 - k]]

\* The arguments a caller may pass with a transaction list: the income
\* analysis of the list, of an empty list, or one whose figures do not agree
\* (a last paycheck and a monthly average with a total of 0); the categories of
\* the list, the same in another order, or none; the balance of the list or a
\* balance of its own.
IncomeArguments(txns) ==
    {detectIncome(txns),
     detectIncome(<<>>),
     [detectIncome(<<Txn(0, -2000, Employer, Undefined, FALSE)>>)
         EXCEPT !.totalIncome = 0]}
CategoryArguments(txns) ==
    {analyzeCategorySpending(txns), Reverse(analyzeCategorySpending(txns)), <<>>}
BalanceArguments(txns) ==
    {detectIncome(txns).totalIncome - SumSeq(Amounts(SelectSeq(txns, IsSpending))),
     300, 999, 1000}

InitInsights ==
    /\ transactions \in ListsOver(InsightPool)
    /\ now = MinOf(Clock)
    /\ scorerIn = NotCalled
    /\ NothingCalled

GenerateInsights ==
    \E income \in IncomeArguments(transactions),
       categories \in CategoryArguments(transactions),
       balance \in BalanceArguments(transactions) :
        /\ insightsCall' = [called |-> TRUE, income |-> income,
                            categories |-> categories, balance |-> balance,
                            clock |-> now,
                            result |-> generateInsights(transactions, income,
                                                        categories, balance, now)]
        /\ UNCHANGED <<transactions, accounts, now, analysis, prevAnalysis,
                       subscriptions, sanitized, scorerIn, health, prevHealth,
                       paymentPattern, frequencyPattern, incomeAnalysis, frame,
                       requests, locals, session, response, categorySpending,
                       periodSpending, stream>>

NextInsights == GenerateInsights \/ Tick

SpecInsights == InitInsights /\ [][NextInsights]_vars

-----------------------------------------------------------------------------
(* Properties of the insight rules *)

InsightTypes == [k \in 1..Len(insightsCall.result) |-> insightsCall.result[k].type]
InsightsOfType(type) == {k \in 1..Len(insightsCall.result) : InsightTypes[k] = type}

\* The place of a type in the order high_spending, cash_flow, positive
RankOfType(type) ==
    CASE type = "high_spending" -> 1
      [] type = "cash_flow" -> 2
      [] type = "positive" -> 3
      [] OTHER -> 0

\* The conditions of the three rules, on the arguments of the call
HighSpendingHolds ==
    /\ insightsCall.categories # <<>>
    /\ FracGT(insightsCall.categories[1].percentage, FracInt(30))
CashFlowHolds ==
    /\ insightsCall.income.lastPaycheck # Undefined
    /\ FracLT(FracInt(insightsCall.balance),
              FracDiv(insightsCall.income.averageMonthly, FracInt(2)))
    /\ insightsCall.clock - insightsCall.income.lastPaycheck.date > 7
SpendingOfCall == SumSeq(Amounts(GroupList(SpendingIndices)))
RateOfCall ==
    FracMul(Frac(insightsCall.income.totalIncome - SpendingOfCall,
                 insightsCall.income.totalIncome), FracInt(100))
PositiveHolds ==
    /\ FracGT(insightsCall.income.averageMonthly, FracInt(0))
    /\ FracGT(RateOfCall, FracInt(10))

\* C23: the list generateInsights returns is a subsequence of high_spending,
\* cash_flow, positive in that order: no other type, each type at most once,
\* and it is empty when the condition of no rule holds.
C23_SubsequenceOfThreeTypes ==
    insightsCall.called =>
        /\ \A k \in 1..Len(InsightTypes) : RankOfType(InsightTypes[k]) > 0
        /\ \A k, l \in 1..Len(InsightTypes) :
               k < l => RankOfType(InsightTypes[k]) < RankOfType(InsightTypes[l])
        /\ (~HighSpendingHolds /\ ~CashFlowHolds /\ ~PositiveHolds)
               => insightsCall.result = <<>>

\* All three rules fired in one call, and the list holds the three types in
\* the order high_spending, cash_flow, positive.
C23_Witness ==
    /\ insightsCall.called
    /\ InsightTypes = <<"high_spending", "cash_flow", "positive">>

\* The categories of the call are those of analyzeCategorySpending on the
\* transactions of the call.
CategoriesFromAggregation ==
    insightsCall.categories = analyzeCategorySpending(transactions)

\* Some category of the call has more than 30% of the total spending.
SomeCategoryOver30 ==
    \E k \in 1..Len(insightsCall.categories) :
        100 * insightsCall.categories[k].total > 30 * SpendingOfCall

\* C24: generateInsights gives a high_spending insight, of severity warning,
\* exactly when the first category of the list it is given has a percentage
\* greater than 30; for the list of analyzeCategorySpending that is exactly
\* when some category has more than 30% of the total spending; and a first
\* category of exactly 30% gives none.
C24_HighSpendingIffFirstOver30 ==
    insightsCall.called =>
        /\ InsightsOfType("high_spending") # {} <=> HighSpendingHolds
        /\ \A k \in InsightsOfType("high_spending") :
               insightsCall.result[k].severity = "warning"
        /\ CategoriesFromAggregation =>
               (InsightsOfType("high_spending") # {} <=> SomeCategoryOver30)
        /\ (/\ insightsCall.categories # <<>>
            /\ insightsCall.categories[1].percentage = FracInt(30))
               => InsightsOfType("high_spending") = {}

\* The list of analyzeCategorySpending for spending of 700 and 300, whose
\* first category has 70%, gave the high_spending warning.
C24_Witness ==
    /\ insightsCall.called
    /\ CategoriesFromAggregation
    /\ Len(insightsCall.categories) = 2
    /\ insightsCall.categories[1].percentage = FracInt(70)
    /\ insightsCall.categories[2].percentage = FracInt(30)
    /\ InsightsOfType("high_spending") # {}
    /\ \A k \in InsightsOfType("high_spending") :
           insightsCall.result[k].severity = "warning"

\* C25: generateInsights gives a cash_flow insight, of severity warning,
\* exactly when the income analysis has a last paycheck, the balance is less
\* than half the average monthly income, and more than 7 days have passed
\* since the date of that paycheck.
C25_CashFlowIffLowBalanceAfter7Days ==
    insightsCall.called =>
        /\ InsightsOfType("cash_flow") # {} <=> CashFlowHolds
        /\ \A k \in InsightsOfType("cash_flow") :
               insightsCall.result[k].severity = "warning"

\* A balance of 999 against a monthly income of 2000, 12 days after the
\* paycheck of day 28: the cash_flow warning is given.
C25_Witness ==
    /\ insightsCall.called
    /\ insightsCall.income.lastPaycheck # Undefined
    /\ insightsCall.income.lastPaycheck.date = 28
    /\ insightsCall.clock = 40
    /\ insightsCall.income.averageMonthly = FracInt(2000)
    /\ insightsCall.balance = 999
    /\ InsightsOfType("cash_flow") # {}

\* The arguments of the call are those analyzeFinances passes for the
\* transactions of the call.
ArgumentsOfAnalyzeFinances ==
    /\ insightsCall.income = detectIncome(transactions)
    /\ CategoriesFromAggregation
    /\ insightsCall.balance = detectIncome(transactions).totalIncome - SpendingOfCall

\* C26: generateInsights gives a positive insight, of severity info, exactly
\* when the average monthly income is above 0 and (totalIncome - the total of
\* the positive-amount transactions) / totalIncome x 100 is above 10; called
\* as analyzeFinances calls it, that rate is the savingsRate analyzeFinances
\* reports, and the positive insight is given exactly when savingsRate > 10.
C26_PositiveIffSavingsRateOver10 ==
    insightsCall.called =>
        /\ InsightsOfType("positive") # {} <=> PositiveHolds
        /\ \A k \in InsightsOfType("positive") :
               insightsCall.result[k].severity = "info"
        /\ ArgumentsOfAnalyzeFinances =>
               LET reported == analyzeFinances(transactions, <<>>, insightsCall.clock)
               IN  /\ reported.insights = insightsCall.result
                   /\ FracGT(insightsCall.income.averageMonthly, FracInt(0))
                          => RateOfCall = reported.savingsRate
                   /\ InsightsOfType("positive") # {}
                          <=> FracGT(reported.savingsRate, FracInt(10))

\* Called as analyzeFinances calls it, for an income of 2000 and spending of
\* 1000: the savings rate is 50 and the positive insight is given.
C26_Witness ==
    /\ insightsCall.called
    /\ ArgumentsOfAnalyzeFinances
    /\ insightsCall.income.totalIncome = 2000
    /\ SpendingOfCall = 1000
    /\ analyzeFinances(transactions, <<>>, insightsCall.clock).savingsRate = FracInt(50)
    /\ InsightsOfType("positive") # {}
    /\ \A k \in InsightsOfType("positive") : insightsCall.result[k].severity = "info"

-----------------------------------------------------------------------------
(* src/app/api/analysis/comprehensive/route.ts and the stream route: the
   spending of the trailing periods *)

\* cutoffDate.setMonth(cutoffDate.getMonth() - months), on day numbers: a
\* month is taken as 30 days.
CutoffDate(clock, months) == clock - 30 * months

\* A variant of InPeriod: a transaction of the cutoff day is left out.
InPeriodAfterCutoff(t, cutoffDate) == t.date > cutoffDate

\* new Date(t.date) >= cutoffDate
InPeriod(t, cutoffDate) == t.date >= cutoffDate

RECURSIVE SumTotals(_)
SumTotals(cats) == IF cats = <<>> THEN 0 ELSE Head(cats).total + SumTotals(Tail(cats))

calculateSpendingByPeriod(categories, months, clock) ==
    LET cutoffDate == CutoffDate(clock, months)
        Recent(t) == InPeriod(t, cutoffDate)
        withTotals == [k \in 1..Len(categories) |->
                          [categories[k] EXCEPT !.total =
                              SumSeq(Amounts(SelectSeq(categories[k].transactions, Recent)))]]
        HasSpending(cat) == cat.total > 0
        filtered == SelectSeq(withTotals, HasSpending)
        totalSpending == SumTotals(filtered)
        mapped == [k \in 1..Len(filtered) |->
                      [category |-> filtered[k].category,
                       total |-> filtered[k].total,
                       percentage |-> FracMul(Frac(filtered[k].total, totalSpending),
                                              FracInt(100))]]
    IN  SliceTo(SortDescending(mapped, [k \in 1..Len(mapped) |-> mapped[k].total]), 6)

\* spendingByPeriod of the comprehensive analysis
SpendingByPeriod(analysisResult, clock) ==
    [m3 |-> calculateSpendingByPeriod(analysisResult.spending.byCategory, 3, clock),
     m6 |-> calculateSpendingByPeriod(analysisResult.spending.byCategory, 6, clock),
     m12 |-> SliceTo(analysisResult.spending.topCategories, 6)]

\* t.personal_finance_category?.primary || 'Other'
PrimaryOrOther(t) ==
    IF t.personal_finance_category = Undefined THEN "Other"
    ELSE t.personal_finance_category.primary

\* The keys of categoryTotals in insertion order.
RECURSIVE PrimaryKeys(_, _)
PrimaryKeys(txns, seen) ==
    IF txns = <<>> THEN <<>>
    ELSE LET c == PrimaryOrOther(Head(txns))
         IN  IF c \in seen THEN PrimaryKeys(Tail(txns), seen)
             ELSE <<c>> \o PrimaryKeys(Tail(txns), seen \cup {c})

\* x.toFixed(1) of a finite x >= 0, as a count of tenths
ToFixed1(x) == MathRound(FracMul(x, FracInt(10)))

calculatePeriodSpending(txns, months, clock) ==
    LET cutoff == CutoffDate(clock, months)
        Kept(t) == InPeriod(t, cutoff) /\ t.amount > 0
        filtered == SelectSeq(txns, Kept)
        total == SumSeq(Amounts(filtered))
        keys == PrimaryKeys(filtered, {})
        Entry(cat) ==
            LET OfCat(t) == PrimaryOrOther(t) = cat
                amt == SumSeq(Amounts(SelectSeq(filtered, OfCat)))
            IN  [category |-> cat, amount |-> amt,
                 percentage |-> ToFixed1(FracMul(Frac(amt, total), FracInt(100)))]
        entries == [k \in 1..Len(keys) |-> Entry(keys[k])]
    IN  [totalSpending |-> total,
         periodLabel |-> months,
         categories |-> SliceTo(SortDescending(entries,
                                    [k \in 1..Len(entries) |-> entries[k].amount]), 5)]

\* spendingByPeriod of the data prepared for the insight stream
StreamedSpendingByPeriod(txns, clock) ==
    [m1 |-> calculatePeriodSpending(txns, 1, clock),
     m3 |-> calculatePeriodSpending(txns, 3, clock),
     m6 |-> calculatePeriodSpending(txns, 6, clock),
     m12 |-> calculatePeriodSpending(txns, 12, clock)]

-----------------------------------------------------------------------------
(* Specification of the spending of the trailing periods *)

\* Seven categories; the first has one charge of 100, on the day of the
\* 3-month cutoff of the first clock reading or lately; each of the others has
\* a late charge of 50, or that and one of 60 between the two cutoffs, or only
\* one of 200 before both.
PeriodPrimaries ==
    <<"ENTERTAINMENT", "DINING", "FOOD_RETAIL", "TRANSPORTATION", "MEDICAL",
      "TRAVEL", "GENERAL_SERVICES">>
FirstCharges == {<<<<-55, 100>>>>, <<<<30, 100>>>>}
OtherCharges == {<<<<30, 50>>>>, <<<<30, 50>>, <<-100, 60>>>>, <<<<-300, 200>>>>}

ChargesOf(primary, charges) ==
    [k \in 1..Len(charges) |->
        Txn(charges[k][1], charges[k][2], Cafe, Pfc(primary), FALSE)]

RECURSIVE Flatten(_)
Flatten(lists) == IF lists = <<>> THEN <<>> ELSE Head(lists) \o Flatten(Tail(lists))

PeriodLists ==
    {LET flat == Flatten([k \in 1..Len(PeriodPrimaries) |->
                             ChargesOf(PeriodPrimaries[k],
                                       IF k = 1 THEN first ELSE others[k])])
     IN  [i \in 1..Len(flat) |-> WithId(flat[i], i)] :
        first \in FirstCharges, others \in [2..Len(PeriodPrimaries) -> OtherCharges]}

InitPeriods ==
    /\ transactions \in PeriodLists
    /\ now = MinOf(Clock)
    /\ scorerIn = NotCalled
    /\ NothingCalled

\* The handlers compute the spending of the periods from the fetched
\* transactions and today's date.
GetSpendingByPeriod ==
    /\ periodSpending' =
           [called |-> TRUE, clock |-> now,
            byPeriod |-> SpendingByPeriod(analyzeFinances(transactions, <<>>, now), now),
            streamed |-> StreamedSpendingByPeriod(transactions, now)]
    /\ UNCHANGED <<transactions, accounts, now, analysis, prevAnalysis,
                   subscriptions, sanitized, scorerIn, health, prevHealth,
                   paymentPattern, frequencyPattern, incomeAnalysis, frame,
                   requests, locals, session, response, categorySpending,
                   insightsCall, stream>>

NextPeriods == GetSpendingByPeriod \/ Tick

SpecPeriods == InitPeriods /\ [][NextPeriods]_vars

-----------------------------------------------------------------------------
(* Properties of the spending of the trailing periods *)

\* The spending of one friendly category, and of one primary code, on or
\* after the cutoff of a horizon of so many months before the clock reading
\* of the call.
WindowIndices(months) ==
    {i \in SpendingIndices :
        transactions[i].date >= periodSpending.clock - 30 * months}
SumAt(I) == SumSeq(Amounts(GroupList(I)))
WindowTotal(label, months) ==
    SumAt({i \in WindowIndices(months) : Category(transactions[i]) = label})
WindowTotalOfPrimary(primary, months) ==
    SumAt({i \in WindowIndices(months) : PrimaryOf(i) = primary})
AllTimeTotal(label) ==
    SumAt({i \in SpendingIndices : Category(transactions[i]) = label})

\* A list of the comprehensive analysis for a horizon: the total of each
\* category returned is its spending in the window, no category without
\* spending in the window is returned and none twice, the order is that of
\* non-increasing total, and a category with spending in the window is left
\* out only behind six categories of at least its total.
PeriodListRight(list, months) ==
    /\ \A k \in DOMAIN list :
           /\ list[k].total = WindowTotal(list[k].category, months)
           /\ list[k].total > 0
    /\ \A k, l \in DOMAIN list :
           k < l => /\ list[k].category # list[l].category
                    /\ list[k].total >= list[l].total
    /\ \A i \in WindowIndices(months) :
           \/ \E k \in DOMAIN list : list[k].category = Category(transactions[i])
           \/ /\ Len(list) = 6
              /\ WindowTotal(Category(transactions[i]), months) <= list[6].total

\* The same of a list of the insight stream, whose categories are primary codes
\* and which holds five categories at most
StreamedListRight(period, months) ==
    /\ \A k \in DOMAIN period.categories :
           /\ period.categories[k].amount
                  = WindowTotalOfPrimary(period.categories[k].category, months)
           /\ period.categories[k].amount > 0
    /\ \A k, l \in DOMAIN period.categories :
           k < l => /\ period.categories[k].category # period.categories[l].category
                    /\ period.categories[k].amount >= period.categories[l].amount
    /\ \A i \in WindowIndices(months) :
           \/ \E k \in DOMAIN period.categories :
                  period.categories[k].category = PrimaryOf(i)
           \/ /\ Len(period.categories) = 5
              /\ WindowTotalOfPrimary(PrimaryOf(i), months) <= period.categories[5].amount

\* Every category of the shorter list that the longer list holds too has at
\* most the longer list's total.
TotalsGrow(shorter, longer) ==
    \A k \in DOMAIN shorter : \A l \in DOMAIN longer :
        shorter[k].category = longer[l].category => shorter[k].total <= longer[l].total
AmountsGrow(shorter, longer) ==
    \A k \in DOMAIN shorter.categories : \A l \in DOMAIN longer.categories :
        shorter.categories[k].category = longer.categories[l].category
            => shorter.categories[k].amount <= longer.categories[l].amount

\* C27: for a horizon of N months every category total the period aggregator
\* returns is the sum of the amounts of that category's spending transactions
\* dated on or after now minus N months, no category without spending in the
\* window is returned, and the list is in non-increasing order of total (the
\* first six categories of that order, five in the insight stream); so a
\* category's 3-month total is at most its 6-month total, and that at most
\* its total over all the transactions, wherever the lists give them.
C27_PeriodTotals ==
    periodSpending.called =>
        LET byPeriod == periodSpending.byPeriod
            streamed == periodSpending.streamed
        IN  /\ PeriodListRight(byPeriod.m3, 3)
            /\ PeriodListRight(byPeriod.m6, 6)
            /\ \A k \in DOMAIN byPeriod.m12 :
                   byPeriod.m12[k].total = AllTimeTotal(byPeriod.m12[k].category)
            /\ TotalsGrow(byPeriod.m3, byPeriod.m6)
            /\ TotalsGrow(byPeriod.m6, byPeriod.m12)
            /\ TotalsGrow(byPeriod.m3, byPeriod.m12)
            /\ \A k \in DOMAIN byPeriod.m3 :
                   byPeriod.m3[k].total <= WindowTotal(byPeriod.m3[k].category, 6)
            /\ \A k \in DOMAIN byPeriod.m6 :
                   byPeriod.m6[k].total <= AllTimeTotal(byPeriod.m6[k].category)
            /\ StreamedListRight(streamed.m3, 3)
            /\ StreamedListRight(streamed.m6, 6)
            /\ AmountsGrow(streamed.m3, streamed.m6)
            /\ AmountsGrow(streamed.m6, streamed.m12)

\* Seven categories with spending in both windows, six of them with more in
\* the 6-month window than in the 3-month window: the lists hold six
\* categories each, the first category of the 3-month list with its charge of
\* the cutoff day, and the 6-month totals of the others are larger.
C27_Witness ==
    /\ periodSpending.called
    /\ Len(periodSpending.byPeriod.m3) = 6
    /\ Len(periodSpending.byPeriod.m6) = 6
    /\ periodSpending.byPeriod.m3[1].total = 100
    /\ transactions[1].date = periodSpending.clock - 90
    /\ periodSpending.byPeriod.m6[1].total = 110
    /\ \E k \in 1..6 : /\ periodSpending.byPeriod.m3[k].total = 50
                       /\ periodSpending.byPeriod.m3[k].category
                              = periodSpending.byPeriod.m6[1].category

-----------------------------------------------------------------------------
(* Properties of the tokens in the session *)

TokenList(s) == IF "plaidAccessTokens" \in DOMAIN s THEN s.plaidAccessTokens ELSE <<>>
ItemIdList(s) == IF "plaidItemIds" \in DOMAIN s THEN s.plaidItemIds ELSE <<>>

\* The two lists have the same length, and the single token and item id are
\* set exactly when the lists are not empty, to their first entries.
TokenListsAgree ==
    /\ ("plaidAccessTokens" \in DOMAIN session) <=> ("plaidItemIds" \in DOMAIN session)
    /\ Len(TokenList(session)) = Len(ItemIdList(session))
    /\ ("plaidAccessToken" \in DOMAIN session) <=> TokenList(session) # <<>>
    /\ ("plaidItemId" \in DOMAIN session) <=> ItemIdList(session) # <<>>
    /\ TokenList(session) # <<>> =>
           /\ session.plaidAccessToken = TokenList(session)[1]
           /\ session.plaidItemId = ItemIdList(session)[1]

\* A successful exchange adds one entry at the end of each list.
ExchangeAppendsOne ==
    (response'.endpoint = "exchange" /\ response'.status = 200) =>
        /\ Len(TokenList(session')) = Len(TokenList(session)) + 1
        /\ Len(ItemIdList(session')) = Len(ItemIdList(session)) + 1
        /\ SubSeq(TokenList(session'), 1, Len(TokenList(session))) = TokenList(session)
        /\ SubSeq(ItemIdList(session'), 1, Len(ItemIdList(session))) = ItemIdList(session)

\* A disconnect leaves no token, no item id and no profile.
DisconnectClears ==
    response'.endpoint = "disconnect" =>
        DOMAIN session' \cap {"plaidAccessTokens", "plaidItemIds", "plaidAccessToken",
                              "plaidItemId", "userProfile"} = {}

\* C28: from an empty session on, the token list and the item id list of the
\* session have the same length; every successful exchange appends one entry
\* to each, so they hold the exchanges since the last disconnect; the single
\* token is set exactly when the list is not empty and is its first entry,
\* which later exchanges do not overwrite; and a disconnect leaves no token,
\* item id or profile in the session.
C28_TokenListsAndLegacyToken ==
    /\ []TokenListsAgree
    /\ [][ExchangeAppendsOne /\ DisconnectClears]_vars

\* After a disconnect, two banks were connected one after the other: the
\* lists hold two entries each and the single token is still the first.
C28_Witness ==
    /\ response.called
    /\ Len(response.log) = 3
    /\ response.log[1].endpoint = "disconnect"
    /\ response.log[2].endpoint = "exchange" /\ response.log[2].status = 200
    /\ response.log[3].endpoint = "exchange" /\ response.log[3].status = 200
    /\ Len(TokenList(session)) = 2
    /\ Len(ItemIdList(session)) = 2
    /\ session.plaidAccessToken = TokenList(session)[1]
    /\ session.plaidAccessToken # TokenList(session)[2]

-----------------------------------------------------------------------------
(* src/components/AICoach.tsx and the stream route: the insight stream *)

\* The content chunks the text service sends in one completion at most, and
\* the analyses a user starts at most.
MaxChunks == 2
MaxRuns == 2

\* The events of the stream: data: {"content": ...}, data: [DONE] and
\* data: {"error": error.message}, whose message may be the empty string.
ContentEvent == [kind |-> "content"]
DoneEvent == [kind |-> "done"]
ErrorEvent(message) == [kind |-> "error", message |-> message]
ErrorMessages == {"Connection error.", ""}

\* useState(''), useState(false), useState(null): the component as mounted,
\* with no request made and no stream. The analysis is the number of content
\* pieces in it, and the error null is the string "null".
Mounted ==
    [called |-> TRUE, isStreaming |-> FALSE, analysis |-> 0, error |-> "null",
     pc |-> "idle", runs |-> 0,
     server |-> "none", enqueued |-> <<>>, closed |-> FALSE, read |-> 0]

\* The first lines of startAnalysis, up to the fetch
AfterStart(s) ==
    [s EXCEPT !.analysis = 0, !.error = "null", !.isStreaming = TRUE,
              !.pc = "fetch", !.runs = @ + 1,
              !.server = "none", !.enqueued = <<>>, !.closed = FALSE, !.read = 0]

\* The catch block of startAnalysis
AfterCatch(s, message) ==
    [s EXCEPT !.error = message, !.isStreaming = FALSE, !.pc = "idle"]

\* A variant of AfterEvent: the error event sets the error and returns with
\* the flag as it is.
AfterEventErrorKeepsFlag(s, event) ==
    CASE event.kind = "done" -> [s EXCEPT !.isStreaming = FALSE, !.pc = "idle"]
      [] event.kind = "content" -> [s EXCEPT !.analysis = @ + 1]
      [] event.kind = "error" ->
            IF event.message # ""
            THEN [s EXCEPT !.error = event.message, !.pc = "idle"]
            ELSE s

\* One data line of a chunk, in the loop of startAnalysis
AfterEvent(s, event) ==
    CASE event.kind = "done" -> [s EXCEPT !.isStreaming = FALSE, !.pc = "idle"]
      [] event.kind = "content" -> [s EXCEPT !.analysis = @ + 1]
      [] event.kind = "error" ->
            IF event.message # ""
            THEN [s EXCEPT !.error = event.message, !.isStreaming = FALSE,
                           !.pc = "idle"]
            ELSE s

\* controller.enqueue(event)
Enqueue(s, event) == [s EXCEPT !.enqueued = Append(@, event)]

\* The component is rendered.
Mount ==
    /\ ~stream.called
    /\ stream' = Mounted
    /\ UNCHANGED <<session, response, coreVarsButStream>>

\* A click on the button, which is disabled while isStreaming
StartAnalysis ==
    /\ stream.called
    /\ ~stream.isStreaming
    /\ stream.runs < MaxRuns
    /\ stream' = AfterStart(stream)
    /\ UNCHANGED <<session, response, coreVarsButStream>>

\* fetch('/api/analysis/stream') settles: it rejects, or the handler answers
\* 401 or 500, or it answers with the stream, whose start has been called.
FetchSettles ==
    /\ stream.called
    /\ stream.pc = "fetch"
    /\ \E outcome \in {"rejected", "notOk", "ok"} :
           stream' = IF outcome = "ok"
                     THEN [stream EXCEPT !.pc = "read", !.server = "create"]
                     ELSE [stream EXCEPT !.pc = outcome]
    /\ UNCHANGED <<session, response, coreVarsButStream>>

\* The client goes on after the fetch failed or the response was not OK: the
\* error is thrown and caught.
ClientThrows ==
    /\ stream.called
    /\ stream.pc \in {"rejected", "notOk", "readRejected"}
    /\ stream' = AfterCatch(stream, IF stream.pc = "notOk"
                                    THEN "Failed to start analysis"
                                    ELSE "Failed to fetch")
    /\ UNCHANGED <<session, response, coreVarsButStream>>

\* reader.read() gives the next event enqueued.
ClientReads ==
    /\ stream.called
    /\ stream.pc = "read"
    /\ stream.read < Len(stream.enqueued)
    /\ stream' = AfterEvent([stream EXCEPT !.read = @ + 1],
                            stream.enqueued[stream.read + 1])
    /\ UNCHANGED <<session, response, coreVarsButStream>>

\* reader.read() gives done: the stream was closed and everything is read, or
\* the connection ended early.
ClientReadsDone ==
    /\ stream.called
    /\ stream.pc \in {"read", "readEnded"}
    /\ stream.pc = "read" => (stream.closed /\ stream.read = Len(stream.enqueued))
    /\ stream' = [stream EXCEPT !.isStreaming = FALSE, !.pc = "idle"]
    /\ UNCHANGED <<session, response, coreVarsButStream>>

\* The connection is lost while the client reads: the next read gives done or
\* rejects.
ConnectionLost ==
    /\ stream.called
    /\ stream.pc = "read"
    /\ \E next \in {"readEnded", "readRejected"} :
           stream' = [stream EXCEPT !.pc = next]
    /\ UNCHANGED <<session, response, coreVarsButStream>>

\* openai.chat.completions.create resolves or throws.
ServerCreates ==
    /\ stream.called
    /\ stream.server = "create"
    /\ \E next \in {"loop", "catch"} : stream' = [stream EXCEPT !.server = next]
    /\ UNCHANGED <<session, response, coreVarsButStream>>

\* for await (const chunk of completion): a chunk with content, a chunk with
\* none, the end of the completion, or an error of the text service.
ServerLoops ==
    /\ stream.called
    /\ stream.server = "loop"
    /\ \/ /\ Len(stream.enqueued) < MaxChunks
          /\ stream' = Enqueue(stream, ContentEvent)
       \/ \E next \in {"done", "catch"} : stream' = [stream EXCEPT !.server = next]
    /\ UNCHANGED <<session, response, coreVarsButStream>>

\* controller.enqueue('data: [DONE]'), and in the catch block the error event
ServerEnqueuesLast ==
    /\ stream.called
    /\ stream.server \in {"done", "catch"}
    /\ \/ /\ stream.server = "done"
          /\ stream' = [Enqueue(stream, DoneEvent) EXCEPT !.server = "close"]
       \/ /\ stream.server = "catch"
          /\ \E message \in ErrorMessages :
                 stream' = [Enqueue(stream, ErrorEvent(message)) EXCEPT !.server = "close"]
    /\ UNCHANGED <<session, response, coreVarsButStream>>

\* controller.close()
ServerCloses ==
    /\ stream.called
    /\ stream.server = "close"
    /\ stream' = [stream EXCEPT !.closed = TRUE, !.server = "finished"]
    /\ UNCHANGED <<session, response, coreVarsButStream>>

InitStream ==
    /\ transactions = <<>>
    /\ now = MinOf(Clock)
    /\ scorerIn = NotCalled
    /\ NothingCalled

ClientStep == ClientThrows \/ ClientReads \/ ClientReadsDone

NextStream ==
    \/ Mount
    \/ StartAnalysis
    \/ FetchSettles
    \/ ClientThrows
    \/ ClientReads
    \/ ClientReadsDone
    \/ ConnectionLost
    \/ ServerCreates
    \/ ServerLoops
    \/ ServerEnqueuesLast
    \/ ServerCloses

\* The continuations of startAnalysis run when what they await has settled, and
\* controller.close() runs in the same turn as the enqueue before it; nothing
\* is assumed of the network and of the text service.
SpecStream ==
    InitStream /\ [][NextStream]_vars /\ WF_vars(ClientStep) /\ WF_vars(ServerCloses)

\* An analysis that has been started and has not ended: the client is at the
\* fetch, at a read, or about to handle what one of them gave.
InProgress == stream.called /\ stream.pc # "idle"

\* The events enqueued that the client has not read
Unread == SubSeq(stream.enqueued, stream.read + 1, Len(stream.enqueued))

\* An outcome of the stream has happened and the client has not handled it:
\* the fetch failed, the response was not OK, the stream ended or broke off,
\* or a [DONE] or an error event is on its way.
Outcome ==
    /\ stream.called
    /\ \/ stream.pc \in {"rejected", "notOk", "readEnded", "readRejected"}
       \/ /\ stream.pc = "read"
          /\ \/ stream.closed
             \/ \E i \in 1..Len(Unread) : Unread[i].kind \in {"done", "error"}

\* A step that starts an analysis is taken with the flag false and makes it
\* true.
StartsOnlyWhenNotStreaming ==
    (stream.called /\ stream'.runs > stream.runs)
        => (~stream.isStreaming /\ stream'.isStreaming)

\* A closed stream holds content events and then one [DONE] or error event.
EndsWithDoneOrError ==
    (stream.called /\ stream.closed)
        => /\ Len(stream.enqueued) > 0
           /\ stream.enqueued[Len(stream.enqueued)].kind \in {"done", "error"}
           /\ \A i \in 1..(Len(stream.enqueued) - 1) :
                  stream.enqueued[i].kind = "content"
           /\ stream.server = "finished"

\* In one analysis a closed stream stays closed and takes no event.
NothingAfterClose ==
    (stream.called /\ stream.closed /\ stream'.runs = stream.runs)
        => (stream'.closed /\ stream'.enqueued = stream.enqueued)

\* C29: while an analysis is in progress isStreaming is true, and an analysis
\* is started only with isStreaming false; once the fetch has failed, the
\* response was not OK, the stream has ended or broken off, or a [DONE] or an
\* error event has been enqueued, isStreaming becomes false; a stream the
\* server has closed holds content events followed by exactly one [DONE] or
\* error event, and takes no event after the close.
C29_StreamingFlagAndStreamEnd ==
    /\ [](InProgress => stream.isStreaming)
    /\ [][StartsOnlyWhenNotStreaming /\ NothingAfterClose]_vars
    /\ []EndsWithDoneOrError
    /\ ((Outcome /\ stream.isStreaming) ~> (stream.called /\ ~stream.isStreaming))

\* A second analysis has ended on an error event that followed one content
\* piece: the stream is closed, the error is shown and the flag is false.
C29_Witness ==
    /\ stream.called
    /\ stream.runs = 2
    /\ stream.closed
    /\ stream.enqueued = <<ContentEvent, ErrorEvent("Connection error.")>>
    /\ stream.read = 2
    /\ stream.analysis = 1
    /\ stream.error = "Connection error."
    /\ stream.pc = "idle"
    /\ ~stream.isStreaming

-----------------------------------------------------------------------------
(* The cadence as a function of the earliest date, the latest date and n *)

\* (latest - earliest) / (n - 1) of a list of at least two transactions
SpanAverage(txns) ==
    Frac(MaxOf(Range(Dates(txns))) - MinOf(Range(Dates(txns))), Len(txns) - 1)

\* The lists that differ from txns in the date of one transaction and have
\* the earliest and the latest date of txns.
InteriorMoves(txns) ==
    {moved \in {[txns EXCEPT ![i].date = d] : i \in 1..Len(txns), d \in CadenceDates} :
        /\ MinOf(Range(Dates(moved))) = MinOf(Range(Dates(txns)))
        /\ MaxOf(Range(Dates(moved))) = MaxOf(Range(Dates(txns)))}

\* C30: for a list of at least two transactions, the cadence of the income
\* path is the band of (latest - earliest) / (n - 1), and so is the cadence of
\* the subscription path; moving one transaction to another day without
\* changing the earliest and the latest date changes neither.
C30_CadenceOfSpan ==
    /\ (paymentPattern.called /\ Len(transactions) >= 2) =>
           /\ paymentPattern.result = ClassifyPayment(SpanAverage(transactions))
           /\ \A moved \in InteriorMoves(transactions) :
                  detectPaymentPattern(moved) = paymentPattern.result
    /\ (frequencyPattern.called /\ Len(transactions) >= 2) =>
           /\ frequencyPattern.result.frequency =
                  ClassifyFrequency(SpanAverage(transactions))
           /\ \A moved \in InteriorMoves(transactions) :
                  detectFrequencyPattern(moved).frequency =
                      frequencyPattern.result.frequency

\* Three transactions on days 30, 4 and 0, out of order: the gaps are 4 and
\* 26 days and both paths call the cadence of their average, 15 days,
\* biweekly and irregular, as they do with the middle one moved to day 25.
C30_Witness ==
    /\ paymentPattern.called
    /\ frequencyPattern.called
    /\ Dates(transactions) = <<30, 4, 0>>
    /\ paymentPattern.result = "biweekly"
    /\ frequencyPattern.result.frequency = "irregular"
    /\ [transactions EXCEPT ![2].date = 25] \in InteriorMoves(transactions)

=============================================================================
